---- MODULE Spec2Model ----
(***************************************************************************)
(* Model of the multi-phase agent orchestration core of memory-bank-mcp:   *)
(*   MultiAgentMemoryBankBuilder.build_memory_bank                          *)
(*   ArchitectureAgent.analyze                                              *)
(*   OrchestrationAgent.orchestrate_component_analysis                      *)
(*   ComponentAgent.analyze_component                                       *)
(*   ValidationOrchestrator.orchestrate_validation                          *)
(*   ValidationAgent.validate_and_fix_component                             *)
(*   CoreMemoryBankBuilder._execute_claude_build_with_restart               *)
(*                                                                         *)
(* The three public coroutines can each be called directly, so a run       *)
(* starts at one of three entry points (variable entry).  progress_callback*)
(* is left at its default None, so _call_progress_callback is a no-op and  *)
(* never suspends.  asyncio tasks are modelled one step per suspension     *)
(* point: a task is pending until it holds a semaphore permit, running     *)
(* while its agent invocation streams, and then returned or raised.        *)
(* architecture_manifest.json and component_analysis_summary.json are      *)
(* always saved; the write of validation_summary.json, which comes after   *)
(* the validators have rewritten the memory banks, may be refused.         *)
(***************************************************************************)
EXTENDS Integers, Sequences, FiniteSets, TLC

VARIABLES
    entry,          \* which public coroutine the caller invoked
    pc,             \* position of the calling coroutine
    cfg,            \* BuildConfig / filesystem facts seen by build_memory_bank
    archOut,        \* what the Architecture Agent's stream did (NoneV before)
    manifest,       \* manifest.components, a sequence of component names
    total_components,      \* manifest.total_components
    k,              \* OrchestrationAgent.max_concurrent_agents
    sem,            \* value of the asyncio.Semaphore of Phase 2
    tstate,         \* per component task: pending / running / returned / raised
    agentRet,       \* what analyze_component returned to each task
    taskExc,        \* the exception each raised task ended with
    orchResult,     \* the OrchestrationResult (NoneV before)
    kv,             \* ValidationOrchestrator.max_concurrent_validators
    vsem,           \* value of the asyncio.Semaphore of Phase 3
    vsel,           \* successful_components: <<manifest index, result>> pairs
    vstate,         \* per validation task: pending / running / returned / raised
    vret,           \* what validate_and_fix_component returned to each task
    valResult,      \* the ValidationOrchestrationResult (NoneV before)
    buildOut,       \* how build_memory_bank ended (NoneV while running)
    caIn,           \* ComponentAgent.analyze_component: the invocation's behaviour
    caOut,          \* ComponentAgent.analyze_component: the returned result
    vaIn,           \* validate_and_fix_component: the invocation's behaviour
    vaOut,          \* validate_and_fix_component: the returned result
    rcCfg,          \* restart controller: the BuildConfig fields it reads
    rcPc,           \* restart controller: idle / loop / done / built
    attempt,        \* restart controller: local attempt
    previous_file_count,   \* restart controller: local previous_file_count
    all_files_written,     \* restart controller: local all_files_written
    existing_core_files,   \* restart controller: the local, Unbound until set
    disk,           \* core files present in the memory-bank directory
    rcHist,         \* what each agent invocation so far did
    write_events,   \* the paths of the Write events of all invocations so far
    rcOut,          \* how _execute_claude_build_with_restart ended
    jobs,           \* JobManager.jobs: job id -> BuildJob (type, status)
    job_queue,      \* JobManager.job_queue, the ids put and not yet taken
    worker,         \* the job _process_job is executing, 0 when none
    cancelRet,      \* the last cancel_job call and what it returned
    mpContent,      \* _parse_manifest: the manifest file being parsed
    mpFirst,        \* _parse_manifest: what the first call produced
    mpSecond,       \* _parse_manifest: what a second call produced
    aaIn,           \* ArchitectureAgent.analyze: arguments, stream, disk
    aaPc,           \* ArchitectureAgent.analyze: idle / start / stream / done
    turn_count,     \* ArchitectureAgent.analyze: local turn_count
    manifest_created,      \* ArchitectureAgent.analyze: local manifest_created
    warnings,       \* number of turn-limit warnings emitted so far
    aaSaved,        \* whether architecture_manifest.json has been written
    aaInvoked,      \* whether query() has been called
    aaOut,          \* ArchitectureAgent.analyze: the manifest or exception
    model,          \* CostCalculator.model
    token_usages,   \* CostCalculator.token_usages
    ccOut           \* the CostBreakdown of the last calculate_cost()

buildVars == <<entry, pc, cfg, archOut, manifest, total_components, k, sem, tstate, agentRet,
               taskExc, orchResult, kv, vsem, vsel, vstate, vret, valResult,
               buildOut>>
caVars == <<caIn, caOut>>
vaVars == <<vaIn, vaOut>>
rcVars == <<rcCfg, rcPc, attempt, previous_file_count, all_files_written,
            existing_core_files, disk, rcHist, write_events, rcOut>>
jmVars == <<jobs, job_queue, worker, cancelRet>>
mpVars == <<mpContent, mpFirst, mpSecond>>
aaVars == <<aaIn, aaPc, turn_count, manifest_created, warnings, aaSaved,
            aaInvoked, aaOut>>
ccVars == <<model, token_usages, ccOut>>
extVars == <<jmVars, mpVars, aaVars, ccVars>>
vars == <<buildVars, caVars, vaVars, rcVars, extVars>>

-----------------------------------------------------------------------------
(* Bounds of the model *)

MaxComponents == 3
MaxK == 2
MaxResults == 2
MaxIssues == 2
MaxRestartAttempts == 3
MaxJobs == 3
MaxLines == 3
MaxTurns == 3

MaxUsage == 2

(* Program constants *)

HardLimitAgents == 15
HardLimitValidators == 10
SizeThreshold == 100

Names == {"A", "B", "C"}

NoneV == [none |-> TRUE]

Min(a, b) == IF a < b THEN a ELSE b

SeqsUpTo(S, n) == UNION {[1..m -> S] : m \in 0..n}

RECURSIVE SelectSeq2(_, _, _)
\* the subsequence of s whose elements satisfy the predicate keep[x]
SelectSeq2(s, keep, i) ==
    IF i > Len(s) THEN <<>>
    ELSE (IF keep[i] THEN <<s[i]>> ELSE <<>>) \o SelectSeq2(s, keep, i + 1)

Filter(s, keep) == SelectSeq2(s, keep, 1)

-----------------------------------------------------------------------------
(* ComponentAgent.analyze_component *)

ExpectedFiles == <<"projectbrief.md", "techContext.md", "systemPatterns.md",
                   "activeContext.md", "progress.md", "api_contracts.md">>

Absent == -1

\* file sizes on disk after the stream ended; Absent when the file is missing
FileSizes == {Absent, 0, SizeThreshold, SizeThreshold + 1}

FileStates == [1..Len(ExpectedFiles) -> FileSizes]

\* mutant: a file of exactly 100 bytes counts as created
FileCreatedAtLeast(size) == size # Absent /\ size >= SizeThreshold

\* file_path.exists() and file_path.stat().st_size > 100
FileCreated(size) == size # Absent /\ size > SizeThreshold

created_files(fs) ==
    Filter(ExpectedFiles, [i \in 1..Len(ExpectedFiles) |-> FileCreated(fs[i])])

missing_files(fs) ==
    Filter(ExpectedFiles, [i \in 1..Len(ExpectedFiles) |-> ~FileCreated(fs[i])])

ComponentOutputPath(name) == <<"components", name, "memory-bank">>

\* the exceptions an agent invocation, or the handling of its stream, ends with
StreamExceptions ==
    { [cls |-> "ProcessError", msg |-> "Command failed with exit code 1"],
      [cls |-> "AttributeError", msg |-> "'str' object has no attribute 'get'"] }

\* str(e) of an exception built from one message
Str(e) == e.msg

\* mutant: the logged message is reported instead of str(e)
analysis_failedLoggedMessage(name, e) ==
    [component_name |-> name,
     success |-> FALSE,
     output_path |-> ComponentOutputPath(name),
     files_written |-> {},
     created_files |-> <<>>,
     missing_files |-> <<>>,
     errors |-> <<"Component analysis failed: " \o Str(e)>>]

\* the result built by "except Exception as e"
analysis_failed(name, e) ==
    [component_name |-> name,
     success |-> FALSE,
     output_path |-> ComponentOutputPath(name),
     files_written |-> {},
     created_files |-> <<>>,
     missing_files |-> <<>>,
     errors |-> <<Str(e)>>]

\* the body of analyze_component from the try on: o.streamRaises says whether
\* query() or the handling of a message raised, o.exc is the exception, o.fs
\* is the disk afterwards, o.writes the Write events seen
analyze_component(name, o) ==
    IF o.streamRaises
    THEN analysis_failed(name, o.exc)
    ELSE [component_name |-> name,
          success |-> Len(missing_files(o.fs)) = 0,
          output_path |-> ComponentOutputPath(name),
          files_written |-> o.writes,
          created_files |-> created_files(o.fs),
          missing_files |-> missing_files(o.fs),
          errors |-> missing_files(o.fs)]

AllBig == [i \in 1..Len(ExpectedFiles) |-> SizeThreshold + 1]

AllWrites == {ExpectedFiles[i] : i \in 1..Len(ExpectedFiles)}

\* the behaviours of one agent invocation explored inside the fan-out
AgentOutcomes ==
    { [streamRaises |-> FALSE, exc |-> NoneV, fs |-> AllBig, writes |-> AllWrites],
      [streamRaises |-> FALSE, exc |-> NoneV,
       fs |-> [AllBig EXCEPT ![1] = Absent],
       writes |-> AllWrites \ {ExpectedFiles[1]}],
      [streamRaises |-> TRUE,
       exc |-> [cls |-> "ProcessError", msg |-> "Command failed with exit code 1"],
       fs |-> AllBig, writes |-> AllWrites] }

-----------------------------------------------------------------------------
(* OrchestrationAgent.orchestrate_component_analysis *)

N == Len(manifest)

Finished == {"returned", "raised"}

Running(ts) == {i \in DOMAIN ts : ts[i] = "running"}

\* mutant: acquire never waits
CanAcquireAlways(s) == TRUE

\* asyncio.Semaphore.acquire: possible when a permit is left
CanAcquire(s) == s > 0

\* mutant: the permit is taken without being counted
AfterAcquireKeepsPermit(s) == s

AfterAcquire(s) == s - 1

\* mutant: leaving "async with semaphore" gives no permit back
AfterReleaseKeepsPermit(s) == s

\* asyncio.Semaphore.release
AfterRelease(s) == s + 1

\* mutant: gather resumes the caller at the first exception
GatherDoneFirstException(ts) ==
    \/ \E i \in DOMAIN ts : ts[i] = "raised"
    \/ \A i \in DOMAIN ts : ts[i] \in Finished

\* mutant: the caller resumes when the first task has finished
GatherDoneFirstCompleted(ts) ==
    \/ \E i \in DOMAIN ts : ts[i] \in Finished
    \/ DOMAIN ts = {}

\* asyncio.gather(*tasks, return_exceptions=True) resumes the caller when
\* every task has finished
GatherDone(ts) == \A i \in DOMAIN ts : ts[i] \in Finished

\* what mkdir of components/<name>/memory-bank raises when it is refused
MkdirError(name) ==
    [cls |-> "PermissionError",
     msg |-> "[Errno 13] Permission denied: components/" \o name]

\* the failed result built for a task that raised: errors=[str(result)]
SyntheticFailure(name, exc) ==
    [component_name |-> name,
     success |-> FALSE,
     output_path |-> <<>>,
     files_written |-> {},
     created_files |-> <<>>,
     missing_files |-> <<>>,
     errors |-> <<Str(exc)>>]

\* mutant: every failure is put on the first component
GatherEntryFirstComponent(i) ==
    IF tstate[i] = "raised"
    THEN SyntheticFailure(manifest[1], taskExc[i])
    ELSE agentRet[i]

\* element i of the list gather returns, after the isinstance branch
GatherEntry(i) ==
    IF tstate[i] = "raised"
    THEN SyntheticFailure(manifest[i], taskExc[i])
    ELSE agentRet[i]

\* the results handed back by gather, in task order: one per finished task,
\* which is every task when gather resumes
GatherList ==
    Filter([i \in 1..N |-> GatherEntry(i)],
           [i \in 1..N |-> tstate[i] \in Finished])

successful_results(gl) == Filter(gl, [i \in 1..Len(gl) |-> gl[i].success])

\* mutant: results synthesised for exceptions are not appended
failed_resultsReturnedOnly(gl) ==
    Filter(gl, [i \in 1..Len(gl) |-> ~gl[i].success /\ gl[i].output_path # <<>>])

failed_results(gl) == Filter(gl, [i \in 1..Len(gl) |-> ~gl[i].success])

\* mutant: the failed results are listed before the successful ones
OrchestrationResultFailedFirst(gl, n, maxc) ==
    [total_components |-> n,
     successful_components |-> Len(successful_results(gl)),
     failed_components |-> Len(failed_results(gl)),
     component_results |-> failed_results(gl) \o successful_results(gl),
     max_concurrent_agents |-> maxc]

OrchestrationResult(gl, n, maxc) ==
    [total_components |-> n,
     successful_components |-> Len(successful_results(gl)),
     failed_components |-> Len(failed_results(gl)),
     component_results |-> successful_results(gl) \o failed_results(gl),
     max_concurrent_agents |-> maxc]

\* semaphore creation and the create_task loop
OrchCreateTasks ==
    /\ pc = "o_create"
    /\ sem' = k
    /\ tstate' = [i \in 1..N |-> "pending"]
    /\ agentRet' = [i \in 1..N |-> NoneV]
    /\ taskExc' = [i \in 1..N |-> NoneV]
    /\ pc' = "o_gather"
    /\ UNCHANGED <<entry, cfg, archOut, manifest, total_components, k, orchResult, kv, vsem,
                   vsel, vstate, vret, valResult, buildOut, caVars, vaVars, rcVars, extVars>>

\* a task enters "async with semaphore" and starts its Component Agent;
\* waiters are served in creation order
TaskAcquire(i) ==
    /\ i \in DOMAIN tstate
    /\ tstate[i] = "pending"
    /\ \A j \in 1..(i - 1) : tstate[j] # "pending"
    /\ CanAcquire(sem)
    /\ sem' = AfterAcquire(sem)
    /\ tstate' = [tstate EXCEPT ![i] = "running"]
    /\ UNCHANGED <<entry, pc, cfg, archOut, manifest, total_components, k, agentRet, taskExc,
                   orchResult, kv, vsem, vsel, vstate, vret, valResult,
                   buildOut, caVars, vaVars, rcVars, extVars>>

\* analyze_component returns a result; the permit is released
TaskReturn(i) ==
    /\ i \in DOMAIN tstate
    /\ tstate[i] = "running"
    /\ \E o \in AgentOutcomes :
          agentRet' = [agentRet EXCEPT ![i] = analyze_component(manifest[i], o)]
    /\ tstate' = [tstate EXCEPT ![i] = "returned"]
    /\ sem' = AfterRelease(sem)
    /\ UNCHANGED <<entry, pc, cfg, archOut, manifest, total_components, k, taskExc, orchResult,
                   kv, vsem, vsel, vstate, vret, valResult, buildOut, caVars, vaVars, rcVars, extVars>>

\* analyze_component raises before its try (mkdir of the output directory
\* fails); the wrapper re-raises and the permit is released
TaskRaise(i) ==
    /\ i \in DOMAIN tstate
    /\ tstate[i] = "running"
    /\ taskExc' = [taskExc EXCEPT ![i] = MkdirError(manifest[i])]
    /\ tstate' = [tstate EXCEPT ![i] = "raised"]
    /\ sem' = AfterRelease(sem)
    /\ UNCHANGED <<entry, pc, cfg, archOut, manifest, total_components, k, agentRet, orchResult,
                   kv, vsem, vsel, vstate, vret, valResult, buildOut, caVars, vaVars, rcVars, extVars>>

\* gather resumes; results are split, counted and returned
OrchAggregate ==
    /\ pc = "o_gather"
    /\ GatherDone(tstate)
    /\ orchResult' = OrchestrationResult(GatherList, N, k)
    /\ pc' = "o_returned"
    /\ UNCHANGED <<entry, cfg, archOut, manifest, total_components, k, sem, tstate, agentRet,
                   taskExc, kv, vsem, vsel, vstate, vret, valResult, buildOut,
                   caVars, vaVars, rcVars, extVars>>


-----------------------------------------------------------------------------
(* ValidationAgent.validate_and_fix_component *)

\* a JSON null, and a key the report does not have
NullV == "<null>"

MissingKey == "<missing>"

\* report_data.get(key, default)
Get(value, default) == IF value = MissingKey THEN default ELSE value

\* the members of the two enums of an issue
IssueSeverity == {"high", "medium", "low"}

IssueType == {"missing", "inaccurate", "inconsistent", "empty", "incomplete"}

\* the ValueError an Enum raises for a value that is none of its members
EnumError(value, enum) ==
    [cls |-> "ValueError", msg |-> "'" \o value \o "' is not a valid " \o enum]

\* validation_report.json as open() and json.load see it: a file that cannot
\* be read, text that is not JSON, or the parsed object
Unreadable == [unreadable |-> TRUE]

InvalidJSON == [invalid |-> TRUE]

PermissionError ==
    [cls |-> "PermissionError", msg |-> "[Errno 13] Permission denied"]

JSONDecodeError ==
    [cls |-> "JSONDecodeError",
     msg |-> "Expecting value: line 1 column 1 (char 0)"]

\* mutant: only the severity of an entry is converted to its enum
IssueErrorSeverityOnly(d) ==
    IF Get(d.severity, "medium") \notin IssueSeverity
    THEN EnumError(Get(d.severity, "medium"), "IssueSeverity")
    ELSE NoneV

\* the exception raised while a ValidationIssue is built from report entry d,
\* NoneV when there is none
IssueError(d) ==
    IF Get(d.severity, "medium") \notin IssueSeverity
    THEN EnumError(Get(d.severity, "medium"), "IssueSeverity")
    ELSE IF Get(d.type, "missing") \notin IssueType
    THEN EnumError(Get(d.type, "missing"), "IssueType")
    ELSE NoneV

RECURSIVE FirstIssueError(_, _)
\* the exception that ends the loop over report_data['issues'], NoneV when
\* the loop runs to its end
FirstIssueError(issues, i) ==
    IF i > Len(issues) THEN NoneV
    ELSE IF IssueError(issues[i]) # NoneV THEN IssueError(issues[i])
    ELSE FirstIssueError(issues, i + 1)

\* the exception raised between open() and the return, NoneV when there is none
ParseError(report) ==
    IF report = Unreadable THEN PermissionError
    ELSE IF report = InvalidJSON THEN JSONDecodeError
    ELSE FirstIssueError(report.issues, 1)

\* truth value of a JSON value in an if
Truthy(v) == v \notin {"false", NullV, ""}

\* mutant: an entry without the key counts as fixed
IsFixedByDefault(d) == Truthy(Get(d.fixed, "true"))

\* issue_data.get('fixed', False) as a condition
IsFixed(d) == Truthy(Get(d.fixed, "false"))

\* mutant: the report on disk is parsed whether or not its Write was seen
ReportAvailableOnDisk(o) == o.exists

\* validation_report_created and validation_report_path.exists()
ReportAvailable(o) == o.writeSeen /\ o.exists

\* mutant: the logged message is recorded instead of str(e)
validation_failedLoggedMessage(name, e) ==
    [component_name |-> name,
     overall_status |-> "FAIL",
     completeness_score |-> 0,
     accuracy_score |-> 0,
     issues_found |-> <<>>,
     issues_fixed |-> <<>>,
     fixes_applied |-> 0,
     error |-> "Validation failed: " \o Str(e)]

\* the result built by "except Exception as e"
validation_failed(name, e) ==
    [component_name |-> name,
     overall_status |-> "FAIL",
     completeness_score |-> 0,
     accuracy_score |-> 0,
     issues_found |-> <<>>,
     issues_fixed |-> <<>>,
     fixes_applied |-> 0,
     error |-> Str(e)]

\* the result built from the parsed report; a ValidationIssue is identified
\* by the position of its entry in report_data['issues']
parsed_report(name, report) ==
    LET issues_found == [i \in 1..Len(report.issues) |-> i]
        issues_fixed ==
            Filter(issues_found,
                   [i \in 1..Len(report.issues) |-> IsFixed(report.issues[i])])
    IN  [component_name |-> name,
         overall_status |-> Get(report.overall_status, "FAIL"),
         completeness_score |-> report.completeness_score,
         accuracy_score |-> report.accuracy_score,
         issues_found |-> issues_found,
         issues_fixed |-> issues_fixed,
         fixes_applied |-> Len(issues_fixed),
         error |-> ""]

\* the result of the else branch
no_validation_report(name) ==
    [component_name |-> name,
     overall_status |-> "FAIL",
     completeness_score |-> 0,
     accuracy_score |-> 0,
     issues_found |-> <<>>,
     issues_fixed |-> <<>>,
     fixes_applied |-> 0,
     error |-> "No validation report created"]

\* the body of validate_and_fix_component from the try on.  o.streamRaises:
\* query() or the handling of a message raised o.exc; o.writeSeen: a Write of
\* a path ending in validation_report.json was seen; o.exists: the report is
\* on disk; o.report: what the file holds
validate_and_fix_component(name, o) ==
    IF o.streamRaises
    THEN validation_failed(name, o.exc)
    ELSE IF ReportAvailable(o)
    THEN IF ParseError(o.report) # NoneV
         THEN validation_failed(name, ParseError(o.report))
         ELSE parsed_report(name, o.report)
    ELSE no_validation_report(name)

\* an issue entry of a report
Issue(severity, type, fixed) ==
    [severity |-> severity, type |-> type, fixed |-> fixed]

\* the behaviours of one validation invocation explored inside the fan-out
ValOutcomes ==
    { [streamRaises |-> FALSE, exc |-> NoneV, writeSeen |-> TRUE, exists |-> TRUE,
       report |-> [overall_status |-> "PASS", completeness_score |-> 90,
                   accuracy_score |-> 80,
                   issues |-> <<Issue("high", "missing", "true")>>]],
      [streamRaises |-> FALSE, exc |-> NoneV, writeSeen |-> TRUE, exists |-> TRUE,
       report |-> [overall_status |-> "PARTIAL", completeness_score |-> 50,
                   accuracy_score |-> 50,
                   issues |-> <<Issue("low", "empty", "true"),
                                Issue(MissingKey, "inaccurate", "false")>>]],
      [streamRaises |-> FALSE, exc |-> NoneV, writeSeen |-> FALSE,
       exists |-> FALSE, report |-> NoneV],
      [streamRaises |-> FALSE, exc |-> NoneV, writeSeen |-> TRUE, exists |-> TRUE,
       report |-> [overall_status |-> NullV, completeness_score |-> 0,
                   accuracy_score |-> 0, issues |-> <<>>]] }

-----------------------------------------------------------------------------
(* ValidationOrchestrator.orchestrate_validation *)

\* ValidationOrchestrator.__init__: the configured limit capped at 10
max_concurrent_validators(c) == Min(c, HardLimitValidators)

\* index of the first manifest component with this name, 0 when there is none
RECURSIVE FirstIndex(_, _, _)
FirstIndex(m, name, i) ==
    IF i > Len(m) THEN 0
    ELSE IF m[i] = name THEN i
    ELSE FirstIndex(m, name, i + 1)

\* the loop that joins successful results with manifest components by name
Selected(m, r) == r.success /\ FirstIndex(m, r.component_name, 1) # 0

successful_components(m, results) ==
    LET kept == Filter(results, [i \in 1..Len(results) |-> Selected(m, results[i])])
    IN  [j \in 1..Len(kept) |->
            [component |-> FirstIndex(m, kept[j].component_name, 1),
             result |-> kept[j]]]

\* mutant: the early return is never taken
NothingToValidateNever(sc) == FALSE

\* "if not successful_components"
NothingToValidate(sc) == Len(sc) = 0

ZeroValidationResult(maxv) ==
    [total_components |-> 0,
     components_passed |-> 0,
     components_failed |-> 0,
     components_partial |-> 0,
     total_issues_found |-> 0,
     total_issues_fixed |-> 0,
     validation_results |-> <<>>,
     reason |-> "no_successful_components",
     max_concurrent_validators |-> maxv]

\* mutant: the fallback name is used for every task that raised
SyntheticValidationFailureFallbackName(name, exc) ==
    [component_name |-> "component_i",
     overall_status |-> "FAIL",
     completeness_score |-> 0,
     accuracy_score |-> 0,
     issues_found |-> <<>>,
     issues_fixed |-> <<>>,
     fixes_applied |-> 0,
     error |-> exc]

\* the failed result built for a task that raised
SyntheticValidationFailure(name, exc) ==
    [component_name |-> name,
     overall_status |-> "FAIL",
     completeness_score |-> 0,
     accuracy_score |-> 0,
     issues_found |-> <<>>,
     issues_fixed |-> <<>>,
     fixes_applied |-> 0,
     error |-> exc]

\* the wrapper formats result.overall_status.lower() after the agent returned:
\* a JSON null there raises AttributeError, which the wrapper re-raises
NoLowerError ==
    [cls |-> "AttributeError",
     msg |-> "'NoneType' object has no attribute 'lower'"]

WrapperRaises(r) == r.overall_status = NullV

VGatherIsException(j) == vstate[j] = "raised"

VGatherEntry(j) ==
    IF VGatherIsException(j)
    THEN SyntheticValidationFailure(manifest[vsel[j].component],
                                    Str(NoLowerError))
    ELSE vret[j]

VFinishedFlags == [j \in 1..Len(vsel) |-> vstate[j] \in Finished]

successful_validations ==
    Filter([j \in 1..Len(vsel) |-> VGatherEntry(j)],
           [j \in 1..Len(vsel) |-> VFinishedFlags[j] /\ ~VGatherIsException(j)])

failed_validations ==
    Filter([j \in 1..Len(vsel) |-> VGatherEntry(j)],
           [j \in 1..Len(vsel) |-> VFinishedFlags[j] /\ VGatherIsException(j)])

CountStatus(rs, status) ==
    Cardinality({i \in 1..Len(rs) : rs[i].overall_status = status})

ZeroDivisionError == [cls |-> "ZeroDivisionError", msg |-> "division by zero"]

\* a / b of two integers, kept as the fraction; b = 0 raises ZeroDivisionError
TrueDiv(a, b) == IF b = 0 THEN ZeroDivisionError ELSE [num |-> a, den |-> b]

\* the integer 0 as a fraction
Zero == [num |-> 0, den |-> 1]

\* mutant: the guard lets a zero denominator through
fix_success_rateUnguarded(fixed, found) ==
    IF found >= 0 THEN TrueDiv(fixed, found) ELSE Zero

\* total_issues_fixed / total_issues_found if total_issues_found > 0 else 0
fix_success_rate(fixed, found) ==
    IF found > 0 THEN TrueDiv(fixed, found) ELSE Zero

RECURSIVE SumOver(_, _, _)
SumOver(rs, f, i) ==
    IF i > Len(rs) THEN 0 ELSE f[i] + SumOver(rs, f, i + 1)

ValidationOrchestrationResult(rs, maxv) ==
    [total_components |-> Len(rs),
     components_passed |-> CountStatus(rs, "PASS"),
     components_failed |-> CountStatus(rs, "FAIL"),
     components_partial |-> CountStatus(rs, "PARTIAL"),
     total_issues_found |->
         SumOver(rs, [i \in 1..Len(rs) |-> Len(rs[i].issues_found)], 1),
     total_issues_fixed |->
         SumOver(rs, [i \in 1..Len(rs) |-> rs[i].fixes_applied], 1),
     validation_results |-> rs,
     reason |-> "",
     max_concurrent_validators |-> maxv,
     fix_success_rate |->
         fix_success_rate(
             SumOver(rs, [i \in 1..Len(rs) |-> rs[i].fixes_applied], 1),
             SumOver(rs, [i \in 1..Len(rs) |-> Len(rs[i].issues_found)], 1))]

\* the selection loop, the early return, and otherwise the semaphore and
\* the create_task loop
ValSelect ==
    /\ pc = "v_select"
    /\ LET sc == successful_components(manifest, orchResult.component_results)
       IN  IF NothingToValidate(sc)
           THEN /\ valResult' = ZeroValidationResult(kv)
                /\ pc' = "v_returned"
                /\ UNCHANGED <<vsel, vsem, vstate, vret, extVars>>
           ELSE /\ vsel' = sc
                /\ vsem' = kv
                /\ vstate' = [j \in 1..Len(sc) |-> "pending"]
                /\ vret' = [j \in 1..Len(sc) |-> NoneV]
                /\ pc' = "v_gather"
                /\ UNCHANGED valResult
    /\ UNCHANGED <<entry, cfg, archOut, manifest, total_components, k, sem, tstate, agentRet,
                   taskExc, orchResult, kv, buildOut, caVars, vaVars, rcVars, extVars>>

\* a task enters "async with semaphore" and starts its Validation Agent
VTaskAcquire(j) ==
    /\ j \in DOMAIN vstate
    /\ vstate[j] = "pending"
    /\ \A h \in 1..(j - 1) : vstate[h] # "pending"
    /\ CanAcquire(vsem)
    /\ vsem' = AfterAcquire(vsem)
    /\ vstate' = [vstate EXCEPT ![j] = "running"]
    /\ UNCHANGED <<entry, pc, cfg, archOut, manifest, total_components, k, sem, tstate, agentRet,
                   taskExc, orchResult, kv, vsel, vret, valResult, buildOut,
                   caVars, vaVars, rcVars, extVars>>

\* validate_and_fix_component returned; the wrapper formats
\* result.overall_status.lower(), which raises AttributeError when the
\* report's overall_status is not a string; either way the permit is released
VTaskFinish(j) ==
    /\ j \in DOMAIN vstate
    /\ vstate[j] = "running"
    /\ \E o \in ValOutcomes :
          LET r == validate_and_fix_component(manifest[vsel[j].component], o)
          IN  IF WrapperRaises(r)
              THEN /\ vstate' = [vstate EXCEPT ![j] = "raised"]
                   /\ UNCHANGED vret
              ELSE /\ vstate' = [vstate EXCEPT ![j] = "returned"]
                   /\ vret' = [vret EXCEPT ![j] = r]
    /\ vsem' = AfterRelease(vsem)
    /\ UNCHANGED <<entry, pc, cfg, archOut, manifest, total_components, k, sem, tstate, agentRet,
                   taskExc, orchResult, kv, vsel, valResult, buildOut, caVars, vaVars, rcVars, extVars>>

BuildRaised(exc) == [kind |-> "raised", exc |-> exc]

\* mutant: the failed result still lists the manifest written in Phase 1
BuildFailureKeepsManifest(e) ==
    [kind |-> "result",
     success |-> FALSE,
     files_written |-> {<<"architecture_manifest.md">>},
     metadata |-> <<>>,
     errors |-> <<e>>]

\* the BuildResult built by the except clause of build_memory_bank
BuildFailure(e) ==
    [kind |-> "result",
     success |-> FALSE,
     files_written |-> {},
     metadata |-> <<>>,
     errors |-> <<e>>]

\* what open(summary_path, 'w') or json.dump raises when the write is refused
SaveError ==
    [cls |-> "OSError",
     msg |-> "[Errno 28] No space left on device: validation_summary.json"]

\* gather resumes; results are tallied, the summary is saved and the result
\* returned.  When _save_validation_summary raises, orchestrate_validation
\* raises: its caller gets no result, and build_memory_bank catches the
\* exception and returns the failed BuildResult
ValAggregate ==
    /\ pc = "v_gather"
    /\ GatherDone(vstate)
    /\ \E saved \in BOOLEAN :
          IF saved
          THEN /\ valResult' = ValidationOrchestrationResult(
                       successful_validations \o failed_validations, kv)
               /\ pc' = "v_returned"
               /\ UNCHANGED buildOut
          ELSE IF entry = "build"
          THEN /\ buildOut' = BuildFailure(Str(SaveError))
               /\ pc' = "b_done"
               /\ UNCHANGED valResult
          ELSE /\ pc' = "v_raised"
               /\ UNCHANGED <<valResult, buildOut>>
    /\ UNCHANGED <<entry, cfg, archOut, manifest, total_components, k, sem, tstate, agentRet,
                   taskExc, orchResult, kv, vsem, vsel, vstate, vret,
                   caVars, vaVars, rcVars, extVars>>

-----------------------------------------------------------------------------
(* ArchitectureAgent.analyze *)

\* what one invocation stream did: it raised, a Write of
\* architecture_manifest.md was seen, the file is on disk afterwards, and
\* turn_count reached turn_warning_threshold
ArchOutcomes ==
    [streamRaises : BOOLEAN, writeSeen : BOOLEAN, fileExists : BOOLEAN,
     atLimit : BOOLEAN]

\* mutant: only the Write event is checked, not the file on disk
ManifestNotProducedFlagOnly(out) == ~out.writeSeen

\* the manifest check after the stream: not manifest_created or not
\* manifest_path.exists()
ManifestNotProduced(out) == ~out.writeSeen \/ ~out.fileExists

\* the exception analyze() ends with, as a list: empty when it returns
AnalyzeErrors(repoExists, repoIsDir, out) ==
    IF ~repoExists THEN <<"Repository path does not exist">>
    ELSE IF ~repoIsDir THEN <<"Repository path is not a directory">>
    ELSE IF out.streamRaises THEN <<"stream error">>
    ELSE IF ManifestNotProduced(out)
         THEN IF out.atLimit
              THEN <<"Architecture manifest was not created. Hit turn limit">>
              ELSE <<"Architecture manifest was not created">>
    ELSE <<>>

HardLimitParallel == 10

\* mutant: the count is taken before the last component is appended
ArchitectureManifestStaleCount(components) ==
    [components |-> components,
     total_components |-> IF Len(components) = 0 THEN 0
                          ELSE Len(components) - 1,
     estimated_parallel_agents |-> Min(Len(components), HardLimitParallel)]

\* the fields _parse_manifest derives from the component list it built
ArchitectureManifest(components) ==
    [components |-> components,
     total_components |-> Len(components),
     estimated_parallel_agents |-> Min(Len(components), HardLimitParallel)]

-----------------------------------------------------------------------------
(* MultiAgentMemoryBankBuilder.build_memory_bank *)

\* manifests up to renaming of components: names appear in the order A, B, C
NameOrder == <<"A", "B", "C">>

NameRank(name) == CHOOSE r \in 1..Len(NameOrder) : NameOrder[r] = name

Canonical(m) ==
    \A i \in 1..Len(m) :
        \/ NameRank(m[i]) = 1
        \/ \E j \in 1..(i - 1) : NameRank(m[j]) >= NameRank(m[i]) - 1

Manifests == {m \in SeqsUpTo(Names, MaxComponents) : Canonical(m)}

\* "if manifest.components and len(manifest.components) > 0"
RunPhase2(m) == Len(m) > 0

\* mutant: Phase 3 runs whenever Phase 2 ran
RunPhase3AnyResult(orch) == orch # NoneV

\* "if orchestration_result and orchestration_result.successful_components > 0"
RunPhase3(orch) == orch # NoneV /\ orch.successful_components > 0

ComponentFiles(results) ==
    UNION { {<<"components", results[i].component_name, f>> :
                f \in results[i].files_written} : i \in 1..Len(results) }

files_written ==
    {<<"architecture_manifest.md">>, <<"architecture_manifest.json">>}
    \cup (IF orchResult # NoneV
          THEN ComponentFiles(orchResult.component_results)
               \cup {<<"component_analysis_summary.json">>}
          ELSE {})
    \cup (IF valResult # NoneV THEN {<<"validation_summary.json">>} ELSE {})

metadata ==
    [phase_1_complete |-> TRUE,
     phase_2_complete |-> orchResult # NoneV,
     phase_3_complete |-> valResult # NoneV,
     total_components |-> N,
     components |-> manifest,
     \* the keys added by "if validation_result: metadata.update(...)"
     validation |->
         IF valResult # NoneV
         THEN [validation_passed |-> valResult.components_passed,
               validation_failed |-> valResult.components_failed,
               validation_partial |-> valResult.components_partial,
               total_issues_found |-> valResult.total_issues_found,
               total_issues_fixed |-> valResult.total_issues_fixed,
               fix_success_rate |->
                   fix_success_rate(valResult.total_issues_fixed,
                                    valResult.total_issues_found)]
         ELSE NoneV]

BuildSuccess ==
    [kind |-> "result",
     success |-> TRUE,
     files_written |-> files_written,
     metadata |-> metadata,
     errors |-> <<>>]

\* the repository path checks, made before the try block
BuildValidate ==
    /\ pc = "b_start"
    /\ IF ~cfg.repoExists
       THEN /\ buildOut' = BuildRaised("Repository path does not exist")
            /\ pc' = "b_done"
       ELSE IF ~cfg.repoIsDir
       THEN /\ buildOut' = BuildRaised("Repository path is not a directory")
            /\ pc' = "b_done"
       ELSE /\ pc' = "b_phase1"
            /\ UNCHANGED buildOut
    /\ UNCHANGED <<entry, cfg, archOut, manifest, total_components, k, sem, tstate, agentRet,
                   taskExc, orchResult, kv, vsem, vsel, vstate, vret,
                   valResult, caVars, vaVars, rcVars, extVars>>

\* Phase 1: architecture_agent.analyze() runs to its end; its exception is
\* caught by the except clause of build_memory_bank
BuildPhase1 ==
    /\ pc = "b_phase1"
    /\ \E out \in ArchOutcomes :
          /\ archOut' = out
          /\ LET errs == AnalyzeErrors(cfg.repoExists, cfg.repoIsDir, out)
             IN  IF Len(errs) > 0
                 THEN /\ buildOut' = BuildFailure(errs[1])
                      /\ pc' = "b_done"
                      /\ UNCHANGED <<manifest, total_components>>
                 ELSE /\ \E m \in Manifests :
                            /\ manifest' = ArchitectureManifest(m).components
                            /\ total_components' =
                                   ArchitectureManifest(m).total_components
                      /\ pc' = "b_phase2"
                      /\ UNCHANGED buildOut
    /\ UNCHANGED <<entry, cfg, k, sem, tstate, agentRet, taskExc, orchResult,
                   kv, vsem, vsel, vstate, vret, valResult, caVars, vaVars, rcVars, extVars>>

\* Phase 2 is entered with min(15, len(components)) agents, or skipped
BuildPhase2 ==
    /\ pc = "b_phase2"
    /\ IF RunPhase2(manifest)
       THEN /\ k' = Min(HardLimitAgents, N)
            /\ pc' = "o_create"
       ELSE /\ pc' = "b_phase3"
            /\ UNCHANGED k
    /\ UNCHANGED <<entry, cfg, archOut, manifest, total_components, sem, tstate, agentRet,
                   taskExc, orchResult, kv, vsem, vsel, vstate, vret,
                   valResult, buildOut, caVars, vaVars, rcVars, extVars>>

\* Phase 3 is entered with min(10, successful_components) validators, which
\* the constructor caps at 10 again, or skipped
BuildPhase3 ==
    /\ \/ pc = "b_phase3"
       \/ pc = "o_returned" /\ entry = "build"
    /\ IF RunPhase3(orchResult)
       THEN /\ kv' = max_concurrent_validators(
                          Min(HardLimitValidators,
                              orchResult.successful_components))
            /\ pc' = "v_select"
       ELSE /\ pc' = "b_finish"
            /\ UNCHANGED kv
    /\ UNCHANGED <<entry, cfg, archOut, manifest, total_components, k, sem, tstate, agentRet,
                   taskExc, orchResult, vsem, vsel, vstate, vret, valResult,
                   buildOut, caVars, vaVars, rcVars, extVars>>

\* metadata assembly and the successful return
BuildFinish ==
    /\ \/ pc = "b_finish"
       \/ pc = "v_returned" /\ entry = "build"
    /\ buildOut' = BuildSuccess
    /\ pc' = "b_done"
    /\ UNCHANGED <<entry, cfg, archOut, manifest, total_components, k, sem, tstate, agentRet,
                   taskExc, orchResult, kv, vsem, vsel, vstate, vret,
                   valResult, caVars, vaVars, rcVars, extVars>>

-----------------------------------------------------------------------------
(* The callers *)

\* the local of a function before its first assignment
Unbound == <<"<unbound>">>

\* no CoreMemoryBankBuilder build is under way
RCIdle ==
    /\ rcCfg = NoneV
    /\ rcPc = "idle"
    /\ attempt = 0
    /\ previous_file_count = 0
    /\ all_files_written = <<>>
    /\ existing_core_files = Unbound
    /\ disk = {}
    /\ rcHist = <<>>
    /\ write_events = {}
    /\ rcOut = NoneV

\* the JobManager holds no job and its worker is waiting on the queue
JMIdle ==
    /\ jobs = <<>>
    /\ job_queue = <<>>
    /\ worker = 0
    /\ cancelRet = NoneV

\* no manifest file is being parsed
MPIdle ==
    /\ mpContent = NoneV
    /\ mpFirst = NoneV
    /\ mpSecond = NoneV

\* ArchitectureAgent.analyze has not been called on its own
AAIdle ==
    /\ aaIn = NoneV
    /\ aaPc = "idle"
    /\ turn_count = 0
    /\ manifest_created = FALSE
    /\ warnings = 0
    /\ aaSaved = FALSE
    /\ aaInvoked = FALSE
    /\ aaOut = NoneV

\* no CostCalculator is in use
CCIdle ==
    /\ model = ""
    /\ token_usages = <<>>
    /\ ccOut = NoneV

ExtIdle == JMIdle /\ MPIdle /\ AAIdle /\ CCIdle

\* OrchestrationResults a caller can hand to orchestrate_validation directly
ResultNames == Names

DirectResults ==
    SeqsUpTo({analyze_component(name, o) : name \in ResultNames, o \in AgentOutcomes}
             \cup {SyntheticFailure(name, MkdirError(name)) : name \in ResultNames},
             MaxResults)

DirectOrchestrationResult(rs) ==
    [total_components |-> Len(rs),
     successful_components |->
         Cardinality({i \in 1..Len(rs) : rs[i].success}),
     failed_components |->
         Cardinality({i \in 1..Len(rs) : ~rs[i].success}),
     component_results |-> rs,
     max_concurrent_agents |-> 1]

\* build_memory_bank(config)
InitBuild ==
    /\ entry = "build"
    /\ pc = "b_start"
    /\ cfg \in {c \in [repoExists : BOOLEAN, repoIsDir : BOOLEAN] :
                    c.repoIsDir => c.repoExists}
    /\ manifest = <<>>
    /\ total_components = 0
    /\ k = 0
    /\ kv = 0
    /\ orchResult = NoneV

\* OrchestrationAgent(root, k).orchestrate_component_analysis(manifest, ...)
InitOrchestrate ==
    /\ entry = "orchestrate"
    /\ pc = "o_create"
    /\ cfg = NoneV
    /\ \E m \in Manifests :
          /\ manifest = ArchitectureManifest(m).components
          /\ total_components = ArchitectureManifest(m).total_components
    /\ k \in 1..MaxK
    /\ kv = 0
    /\ orchResult = NoneV

\* the limits a caller configures: small ones and one above the cap
ConfiguredLimits == (1..MaxK) \cup {HardLimitValidators + 1}

\* ValidationOrchestrator(root, c).orchestrate_validation(manifest, result, ...)
InitValidate ==
    /\ entry = "validate"
    /\ pc = "v_select"
    /\ cfg = NoneV
    /\ \E m \in Manifests :
          /\ manifest = ArchitectureManifest(m).components
          /\ total_components = ArchitectureManifest(m).total_components
    /\ k = 0
    /\ \E c \in ConfiguredLimits : kv = max_concurrent_validators(c)
    /\ \E rs \in DirectResults : orchResult = DirectOrchestrationResult(rs)

Init ==
    /\ \/ InitBuild
       \/ InitOrchestrate
       \/ InitValidate
    /\ archOut = NoneV
    /\ sem = 0
    /\ tstate = <<>>
    /\ agentRet = <<>>
    /\ taskExc = <<>>
    /\ vsem = 0
    /\ vsel = <<>>
    /\ vstate = <<>>
    /\ vret = <<>>
    /\ valResult = NoneV
    /\ buildOut = NoneV
    /\ caIn = NoneV
    /\ caOut = NoneV
    /\ vaIn = NoneV
    /\ vaOut = NoneV
    /\ RCIdle
    /\ ExtIdle

TaskIds == 1..(MaxComponents + 1)

Next ==
    \/ BuildValidate
    \/ BuildPhase1
    \/ BuildPhase2
    \/ OrchCreateTasks
    \/ \E i \in TaskIds : TaskAcquire(i)
    \/ \E i \in TaskIds : TaskReturn(i)
    \/ \E i \in TaskIds : TaskRaise(i)
    \/ OrchAggregate
    \/ BuildPhase3
    \/ ValSelect
    \/ \E j \in TaskIds : VTaskAcquire(j)
    \/ \E j \in TaskIds : VTaskFinish(j)
    \/ ValAggregate
    \/ BuildFinish

Spec == Init /\ [][Next]_vars

\* orchestrate_component_analysis called on its own
InitOA == Init /\ entry = "orchestrate"

NextOA ==
    \/ OrchCreateTasks
    \/ \E i \in TaskIds : TaskAcquire(i)
    \/ \E i \in TaskIds : TaskReturn(i)
    \/ \E i \in TaskIds : TaskRaise(i)
    \/ OrchAggregate

SpecOA == InitOA /\ [][NextOA]_vars

\* The event loop resumes every coroutine that can go on: the caller after
\* the create_task loop, a task waiting on the semaphore once a permit is
\* free, the caller in gather once every task is done.  Every Component Agent
\* invocation ends, by returning or by raising.
FairSpecOA ==
    /\ SpecOA
    /\ WF_vars(OrchCreateTasks)
    /\ WF_vars(\E i \in TaskIds : TaskAcquire(i))
    /\ \A i \in TaskIds : WF_vars(TaskReturn(i) \/ TaskRaise(i))
    /\ WF_vars(OrchAggregate)

-----------------------------------------------------------------------------
(* ComponentAgent.analyze_component called on its own, for every state of   *)
(* the six expected files after the stream                                  *)

WriteSamples == {{}, {ExpectedFiles[1]}, AllWrites}

InitCA ==
    /\ entry = "analyze_component"
    /\ pc = "ca_call"
    /\ cfg = NoneV
    /\ archOut = NoneV
    /\ manifest = ArchitectureManifest(<<"A">>).components
    /\ total_components = ArchitectureManifest(<<"A">>).total_components
    /\ k = 0
    /\ sem = 0
    /\ tstate = <<>>
    /\ agentRet = <<>>
    /\ taskExc = <<>>
    /\ orchResult = NoneV
    /\ kv = 0
    /\ vsem = 0
    /\ vsel = <<>>
    /\ vstate = <<>>
    /\ vret = <<>>
    /\ valResult = NoneV
    /\ buildOut = NoneV
    /\ caIn \in {o \in [streamRaises : BOOLEAN,
                         exc : StreamExceptions \cup {NoneV},
                         fs : FileStates, writes : WriteSamples] :
                       o.streamRaises <=> o.exc # NoneV}
    /\ caOut = NoneV
    /\ vaIn = NoneV
    /\ vaOut = NoneV
    /\ RCIdle
    /\ ExtIdle

\* the invocation ends and analyze_component returns
CAReturn ==
    /\ pc = "ca_call"
    /\ caOut' = analyze_component(manifest[1], caIn)
    /\ pc' = "ca_done"
    /\ UNCHANGED <<entry, cfg, archOut, manifest, total_components, k, sem, tstate, agentRet,
                   taskExc, orchResult, kv, vsem, vsel, vstate, vret,
                   valResult, buildOut, caIn, vaVars, rcVars, extVars>>

NextCA == CAReturn

SpecCA == InitCA /\ [][NextCA]_vars

-----------------------------------------------------------------------------
(* ValidationAgent.validate_and_fix_component called on its own, for every  *)
(* way the stream can end and every content of validation_report.json       *)

IssueEntries ==
    {Issue(s, t, f) : s \in {"high", MissingKey, "critical"},
                      t \in {"missing", "bug"},
                      f \in {"true", "false", MissingKey}}

ReportSamples ==
    {Unreadable, InvalidJSON} \cup
    [overall_status : {"PASS", "UNKNOWN", MissingKey, NullV},
     completeness_score : {90},
     accuracy_score : {80},
     issues : SeqsUpTo(IssueEntries, MaxIssues)]

ValidationInvocations ==
    {o \in [streamRaises : BOOLEAN,
            exc : StreamExceptions \cup {NoneV},
            writeSeen : BOOLEAN,
            exists : BOOLEAN,
            report : ReportSamples \cup {NoneV}] :
        /\ o.streamRaises <=> o.exc # NoneV
        /\ o.exists <=> o.report # NoneV}

InitVA ==
    /\ entry = "validate_and_fix_component"
    /\ pc = "va_call"
    /\ cfg = NoneV
    /\ archOut = NoneV
    /\ manifest = ArchitectureManifest(<<"A">>).components
    /\ total_components = ArchitectureManifest(<<"A">>).total_components
    /\ k = 0
    /\ sem = 0
    /\ tstate = <<>>
    /\ agentRet = <<>>
    /\ taskExc = <<>>
    /\ orchResult = NoneV
    /\ kv = 0
    /\ vsem = 0
    /\ vsel = <<>>
    /\ vstate = <<>>
    /\ vret = <<>>
    /\ valResult = NoneV
    /\ buildOut = NoneV
    /\ caIn = NoneV
    /\ caOut = NoneV
    /\ vaIn \in ValidationInvocations
    /\ vaOut = NoneV
    /\ RCIdle
    /\ ExtIdle

\* the invocation ends and validate_and_fix_component returns
VAReturn ==
    /\ pc = "va_call"
    /\ vaOut' = validate_and_fix_component(manifest[1], vaIn)
    /\ pc' = "va_done"
    /\ UNCHANGED <<entry, cfg, archOut, manifest, total_components, k, sem, tstate, agentRet,
                   taskExc, orchResult, kv, vsem, vsel, vstate, vret,
                   valResult, buildOut, caVars, vaIn, rcVars, extVars>>

\* orchestrate_validation with this component as its only unit: the wrapper
\* hands the result, or the exception it re-raised, to gather, the results
\* are tallied and the summary is saved, unless that write is refused
VAAggregate ==
    /\ pc = "va_done"
    /\ \E saved \in BOOLEAN :
          IF saved
          THEN /\ valResult' = ValidationOrchestrationResult(
                                   <<IF WrapperRaises(vaOut)
                                     THEN SyntheticValidationFailure(
                                              manifest[1], Str(NoLowerError))
                                     ELSE vaOut>>, 1)
               /\ pc' = "va_returned"
          ELSE /\ pc' = "va_raised"
               /\ UNCHANGED valResult
    /\ UNCHANGED <<entry, cfg, archOut, manifest, total_components, k, sem, tstate, agentRet,
                   taskExc, orchResult, kv, vsem, vsel, vstate, vret,
                   buildOut, caVars, vaVars, rcVars, extVars>>

NextVA ==
    \/ VAReturn
    \/ VAAggregate

SpecVA == InitVA /\ [][NextVA]_vars

-----------------------------------------------------------------------------
(* CoreMemoryBankBuilder._execute_claude_build_with_restart and the         *)
(* build_memory_bank that awaits it.  config is the BuildConfig the builder *)
(* passes, never None; graph.json and generation_summary.json are writable. *)

core_files == <<"projectbrief.md", "productContext.md", "systemPatterns.md",
                "techContext.md">>

CoreThreshold == 2

\* the core files that exist in memory-bank directory d, in core_files order
ExistingCoreFiles(d) ==
    Filter(core_files, [i \in 1..Len(core_files) |-> core_files[i] \in d])

\* len(existing_core_files) >= 2
EnoughCoreFiles(cores) == Len(cores) >= CoreThreshold

RECURSIVE Accumulate(_, _, _)
\* the loop appending each file of the attempt not yet in all_files_written
Accumulate(all, files, i) ==
    IF i > Len(files) THEN all
    ELSE Accumulate(IF \E h \in 1..Len(all) : all[h] = files[i]
                    THEN all
                    ELSE Append(all, files[i]),
                    files, i + 1)

\* mutant: the stall check is never taken
NoProgressNever(current_total_files, previous, a) == FALSE

\* current_total_files == previous_file_count and attempt > 1
NoProgress(current_total_files, previous, a) ==
    current_total_files = previous /\ a > 1

\* attempt < config.max_restart_attempts
CanRestart(a, max) == a < max

\* mutant: the counter is not advanced
NextAttemptStuck(a) == a

\* attempt += 1
NextAttempt(a) == a + 1

\* reading a local that no assignment has reached yet
UnboundLocalError(name) ==
    [cls |-> "UnboundLocalError",
     msg |-> "local variable '" \o name \o "' referenced before assignment"]

\* the body of the try after the invocation returned n files: c is the
\* config, a the attempt, prev previous_file_count, acc all_files_written
\* after the append loop, cores the local existing_core_files.  The locals
\* memory_bank_dir and existing_core_files are assigned only inside
\* "if len(files_written) > 0", both in the same iteration.
AfterInvocation(c, a, prev, acc, n, cores) ==
    IF n > 0 /\ EnoughCoreFiles(cores)
    THEN [kind |-> "return", exit |-> "success"]
    ELSE IF c.auto_restart_on_early_termination /\ n = 0
    THEN IF NoProgress(Len(acc), prev, a)
         THEN [kind |-> "return", exit |-> "abort"]
         ELSE IF CanRestart(a, c.max_restart_attempts)
         THEN IF cores = Unbound
              THEN [kind |-> "except",
                    exc |-> UnboundLocalError("memory_bank_dir")]
              ELSE [kind |-> "continue", previous_file_count |-> Len(acc)]
         ELSE [kind |-> "return", exit |-> "exhausted"]
    ELSE IF cores = Unbound
    THEN [kind |-> "except",
          exc |-> UnboundLocalError("existing_core_files")]
    ELSE IF Len(cores) < CoreThreshold /\ n > 0
    THEN IF CanRestart(a, c.max_restart_attempts)
         THEN [kind |-> "continue", previous_file_count |-> prev]
         ELSE [kind |-> "return", exit |-> "exhausted"]
    ELSE [kind |-> "return", exit |-> "completion"]

\* the paths of the Write events of one invocation
AttemptWrites ==
    { <<>>,
      <<"memory-bank/projectbrief.md">>,
      <<"memory-bank/notes.md">>,
      <<"memory-bank/projectbrief.md", "memory-bank/notes.md">>,
      <<"memory-bank/notes.md", "memory-bank/notes.md">> }

\* the core files in the memory-bank directory when an invocation ends
DiskSamples ==
    { {}, {"projectbrief.md"}, {"projectbrief.md", "productContext.md"} }

InvokerError ==
    [cls |-> "ProcessError", msg |-> "Command failed with exit code 1"]

\* what one run of _execute_claude_build does: its stream shows the Write
\* events o.writes and then it raises o.exc or returns o.writes, and it
\* leaves o.disk behind
AttemptOutcomes ==
    {o \in [raises : BOOLEAN, exc : {NoneV, InvokerError},
            writes : AttemptWrites, disk : DiskSamples] :
        o.raises <=> o.exc # NoneV}

OutcomeKind(o) ==
    IF o.raises THEN "raise"
    ELSE IF Len(o.writes) = 0 THEN "zero" ELSE "files"

\* build_memory_bank(config) of the core builder has reached the call of
\* _execute_claude_build_with_restart
InitRC ==
    /\ entry = "core_build"
    /\ pc = "rc_call"
    /\ cfg = NoneV
    /\ archOut = NoneV
    /\ manifest = <<>>
    /\ total_components = 0
    /\ k = 0
    /\ sem = 0
    /\ tstate = <<>>
    /\ agentRet = <<>>
    /\ taskExc = <<>>
    /\ orchResult = NoneV
    /\ kv = 0
    /\ vsem = 0
    /\ vsel = <<>>
    /\ vstate = <<>>
    /\ vret = <<>>
    /\ valResult = NoneV
    /\ buildOut = NoneV
    /\ caIn = NoneV
    /\ caOut = NoneV
    /\ vaIn = NoneV
    /\ vaOut = NoneV
    /\ rcCfg \in [max_restart_attempts : 0..MaxRestartAttempts,
                  auto_restart_on_early_termination : BOOLEAN]
    /\ rcPc = "loop"
    /\ attempt = 1
    /\ previous_file_count = 0
    /\ all_files_written = <<>>
    /\ existing_core_files = Unbound
    /\ disk \in DiskSamples
    /\ rcHist = <<>>
    /\ write_events = {}
    /\ rcOut = NoneV
    /\ ExtIdle

\* one iteration of the while loop: the invocation, the append loop, the
\* checks, and the except clause for whatever the try raised
RCAttempt ==
    /\ rcPc = "loop"
    /\ attempt <= rcCfg.max_restart_attempts
    /\ Len(rcHist) <= MaxRestartAttempts
    /\ \E o \in AttemptOutcomes :
          LET acc == IF o.raises THEN all_files_written
                     ELSE Accumulate(all_files_written, o.writes, 1)
              cores == IF ~o.raises /\ Len(o.writes) > 0
                       THEN ExistingCoreFiles(o.disk)
                       ELSE existing_core_files
              step == IF o.raises THEN [kind |-> "except", exc |-> o.exc]
                      ELSE AfterInvocation(rcCfg, attempt, previous_file_count,
                                           acc, Len(o.writes), cores)
          IN  /\ rcHist' = Append(rcHist, OutcomeKind(o))
              /\ write_events' =
                     write_events \cup {o.writes[i] : i \in 1..Len(o.writes)}
              /\ disk' = o.disk
              /\ all_files_written' = acc
              /\ existing_core_files' = cores
              /\ IF step.kind = "return"
                 THEN /\ rcOut' = [kind |-> "returned", exit |-> step.exit,
                                   files |-> acc]
                      /\ rcPc' = "done"
                      /\ UNCHANGED <<attempt, previous_file_count, extVars>>
                 ELSE IF step.kind = "continue"
                 THEN /\ attempt' = NextAttempt(attempt)
                      /\ previous_file_count' = step.previous_file_count
                      /\ UNCHANGED <<rcOut, rcPc, extVars>>
                 ELSE IF CanRestart(attempt, rcCfg.max_restart_attempts)
                 THEN /\ attempt' = NextAttempt(attempt)
                      /\ UNCHANGED <<previous_file_count, rcOut, rcPc, extVars>>
                 ELSE /\ rcOut' = [kind |-> "raised", exit |-> "raised",
                                   exc |-> step.exc]
                      /\ rcPc' = "done"
                      /\ UNCHANGED <<attempt, previous_file_count, extVars>>
    /\ UNCHANGED <<buildVars, caVars, vaVars, rcCfg, extVars>>

\* the while condition fails and the function returns all_files_written
RCLoopEnd ==
    /\ rcPc = "loop"
    /\ ~(attempt <= rcCfg.max_restart_attempts)
    /\ rcOut' = [kind |-> "returned", exit |-> "loop_end",
                 files |-> all_files_written]
    /\ rcPc' = "done"
    /\ UNCHANGED <<buildVars, caVars, vaVars, rcCfg, attempt,
                   previous_file_count, all_files_written,
                   existing_core_files, disk, rcHist, write_events, extVars>>

\* the BuildResult of the core builder for a controller that returned files
core_build_success(files) ==
    [kind |-> "result",
     success |-> TRUE,
     files_written |-> files,
     metadata |-> [mode |-> "full_build"],
     errors |-> <<>>]

\* the BuildResult built by "except Exception as e" of the core builder
core_build_failure(e) ==
    [kind |-> "result",
     success |-> FALSE,
     files_written |-> <<>>,
     metadata |-> <<>>,
     errors |-> <<Str(e)>>]

\* build_memory_bank after the controller: metadata files and the success
\* result, or the error result when the controller raised
CoreBuildFinish ==
    /\ rcPc = "done"
    /\ buildOut' = IF rcOut.kind = "returned"
                   THEN core_build_success(rcOut.files)
                   ELSE core_build_failure(rcOut.exc)
    /\ rcPc' = "built"
    /\ pc' = "rc_done"
    /\ UNCHANGED <<entry, cfg, archOut, manifest, total_components, k, sem, tstate, agentRet,
                   taskExc, orchResult, kv, vsem, vsel, vstate, vret,
                   valResult, caVars, vaVars, rcCfg, attempt,
                   previous_file_count, all_files_written,
                   existing_core_files, disk, rcHist, write_events, rcOut,
                   extVars>>

NextRC ==
    \/ RCAttempt
    \/ RCLoopEnd
    \/ CoreBuildFinish

SpecRC == InitRC /\ [][NextRC]_vars

\* build_memory_bank is awaited by its caller and every agent invocation
\* ends, so the controller always takes its next step
FairSpecRC == SpecRC /\ WF_vars(NextRC)

-----------------------------------------------------------------------------
(* JobManager: create_job, cancel_job, and the worker loop running          *)
(* _process_job.  All of them run on one event loop, so each runs without   *)
(* interruption between two awaits.  A job id is the job's position in      *)
(* jobs (uuid4 ids are fresh).                                              *)

BuildJobStatus == {"pending", "running", "completed", "failed", "cancelled"}

BuildJobType == {"build", "update"}

\* a job as create_job stores it; completed_at is NullV or "now", result is
\* NoneV or the dict _execute_build_command stored (its "success" key)
BuildJob(type) ==
    [type |-> type, status |-> "pending", completed_at |-> NullV,
     error_message |-> NullV, result |-> NoneV]

WithStatus(js, id, status) == [js EXCEPT ![id].status = status]

\* create_job(request): the validator may reject the request; otherwise the
\* PENDING job is stored and its id is put on the queue
CreateJob ==
    /\ Len(jobs) < MaxJobs
    /\ \E valid \in BOOLEAN, type \in BuildJobType :
          IF valid
          THEN /\ jobs' = Append(jobs, BuildJob(type))
               /\ job_queue' = Append(job_queue, Len(jobs) + 1)
          ELSE UNCHANGED <<jobs, job_queue>>
    /\ UNCHANGED <<buildVars, caVars, vaVars, rcVars, mpVars, aaVars, ccVars, worker, cancelRet>>

\* mutant: a running job can be cancelled as well
CanCancelUnlessFinished(status) == status \in {"pending", "running"}

\* if job.status == BuildJobStatus.PENDING
CanCancel(status) == status = "pending"

\* cancel_job(job_id)
CancelJob(id) ==
    /\ IF id \in DOMAIN jobs /\ CanCancel(jobs[id].status)
       THEN /\ jobs' = [jobs EXCEPT ![id].status = "cancelled",
                                     ![id].completed_at = "now"]
            /\ cancelRet' = [job_id |-> id, ok |-> TRUE]
       ELSE /\ cancelRet' = [job_id |-> id, ok |-> FALSE]
            /\ UNCHANGED jobs
    /\ UNCHANGED <<buildVars, caVars, vaVars, rcVars, mpVars, aaVars, ccVars, job_queue, worker>>

\* mutant: the worker does not look at the status of the job it takes
WasCancelledNever(status) == FALSE

\* the check at the head of the try of _process_job
WasCancelled(status) == status = "cancelled"

\* _worker_loop takes the next id and _process_job runs up to the await of
\* the build or update command, or returns at once for a cancelled job
WorkerTake ==
    /\ worker = 0
    /\ job_queue # <<>>
    /\ LET id == Head(job_queue)
       IN  /\ job_queue' = Tail(job_queue)
           /\ IF id \notin DOMAIN jobs \/ WasCancelled(jobs[id].status)
              THEN UNCHANGED <<jobs, worker>>
              ELSE /\ jobs' = WithStatus(jobs, id, "running")
                   /\ worker' = id
    /\ UNCHANGED <<buildVars, caVars, vaVars, rcVars, mpVars, aaVars, ccVars, cancelRet>>

\* how the awaited build or update command ends: the builder returned a
\* BuildResult with success true or false, or an exception left the command
CommandOutcomes == {"success", "failure", "raises"}

CommandError == [cls |-> "RuntimeError", msg |-> "Build failed"]

\* _execute_build_command / _execute_update_command: the BuildResult is
\* converted to a dict and stored in job.result, whatever its success is
StoreResult(job, out) == [job EXCEPT !.result = [success |-> out = "success"]]

\* mutant: an exception leaves the job as it was, as a cancellation does
ProcessJobEndOnlyIfReturned(job, out) ==
    IF out = "raises"
    THEN job
    ELSE [StoreResult(job, out) EXCEPT !.status = "completed",
                                       !.completed_at = "now"]

\* the rest of _process_job after the command: COMPLETED when the command
\* returned, FAILED with str(e) when it raised an Exception
ProcessJobEnd(job, out) ==
    IF out = "raises"
    THEN [job EXCEPT !.status = "failed",
                     !.error_message = Str(CommandError),
                     !.completed_at = "now"]
    ELSE [StoreResult(job, out) EXCEPT !.status = "completed",
                                       !.completed_at = "now"]

\* the awaited command returns (COMPLETED) or raises (FAILED); the logs are
\* saved and the worker waits on the queue again
WorkerFinish ==
    /\ worker > 0
    /\ \E out \in CommandOutcomes :
          jobs' = [jobs EXCEPT ![worker] = ProcessJobEnd(jobs[worker], out)]
    /\ worker' = 0
    /\ UNCHANGED <<buildVars, caVars, vaVars, rcVars, mpVars, aaVars, ccVars, job_queue, cancelRet>>

\* stop_worker(): the worker task is cancelled; CancelledError is not an
\* Exception, so a job being processed keeps the status it has
StopWorker ==
    /\ worker >= 0
    /\ worker' = -1
    /\ UNCHANGED <<buildVars, caVars, vaVars, rcVars, mpVars, aaVars, ccVars, jobs, job_queue,
                   cancelRet>>

\* start_worker() after a stop: a new worker loop waits on the queue
StartWorker ==
    /\ worker = -1
    /\ worker' = 0
    /\ UNCHANGED <<buildVars, caVars, vaVars, rcVars, mpVars, aaVars, ccVars, jobs, job_queue,
                   cancelRet>>

\* a JobManager whose worker has been started
InitJM ==
    /\ entry = "job_manager"
    /\ pc = "jm"
    /\ cfg = NoneV
    /\ archOut = NoneV
    /\ manifest = <<>>
    /\ total_components = 0
    /\ k = 0
    /\ sem = 0
    /\ tstate = <<>>
    /\ agentRet = <<>>
    /\ taskExc = <<>>
    /\ orchResult = NoneV
    /\ kv = 0
    /\ vsem = 0
    /\ vsel = <<>>
    /\ vstate = <<>>
    /\ vret = <<>>
    /\ valResult = NoneV
    /\ buildOut = NoneV
    /\ caIn = NoneV
    /\ caOut = NoneV
    /\ vaIn = NoneV
    /\ vaOut = NoneV
    /\ RCIdle
    /\ JMIdle
    /\ MPIdle
    /\ AAIdle
    /\ CCIdle

JobIds == 1..(MaxJobs + 1)

NextJM ==
    \/ CreateJob
    \/ \E id \in JobIds : CancelJob(id)
    \/ WorkerTake
    \/ WorkerFinish
    \/ StopWorker
    \/ StartWorker

SpecJM == InitJM /\ [][NextJM]_vars

\* a JobManager whose worker is started and never stopped
NextJW ==
    \/ CreateJob
    \/ \E id \in JobIds : CancelJob(id)
    \/ WorkerTake
    \/ WorkerFinish

SpecJW == InitJM /\ [][NextJW]_vars

\* the worker task polls the queue for as long as it runs, and every build
\* or update command it awaits returns or raises
FairSpecJW == SpecJW /\ WF_vars(WorkerTake) /\ WF_vars(WorkerFinish)

-----------------------------------------------------------------------------
(* ArchitectureAgent._parse_manifest.  The manifest text is a sequence of   *)
(* lines and a line a sequence of atoms (pieces of text): ":" "," and " "   *)
(* are the separators the parser looks for, "### Component: " is the        *)
(* literal its regex looks for, and a "###" starts a line or is absent.     *)

RECURSIVE Join(_, _)
\* the text of atoms i.. of a line
Join(atoms, i) ==
    IF i > Len(atoms) THEN "" ELSE atoms[i] \o Join(atoms, i + 1)

RECURSIVE LStrip(_)
LStrip(atoms) ==
    IF atoms # <<>> /\ Head(atoms) = " " THEN LStrip(Tail(atoms)) ELSE atoms

RECURSIVE RStrip(_)
RStrip(atoms) ==
    IF atoms # <<>> /\ atoms[Len(atoms)] = " "
    THEN RStrip(SubSeq(atoms, 1, Len(atoms) - 1))
    ELSE atoms

\* str.strip()
Strip(atoms) == Join(RStrip(LStrip(atoms)), 1)

RECURSIVE FirstAtom(_, _, _)
\* index of the first atom a at or after i, 0 when there is none
FirstAtom(atoms, a, i) ==
    IF i > Len(atoms) THEN 0
    ELSE IF atoms[i] = a THEN i
    ELSE FirstAtom(atoms, a, i + 1)

\* line.split(':', 1)[1]
AfterColon(line) == SubSeq(line, FirstAtom(line, ":", 1) + 1, Len(line))

\* '**Key**:' in line
HasKey(line, key) ==
    \E i \in 1..(Len(line) - 1) : line[i] = key /\ line[i + 1] = ":"

RECURSIVE SplitComma(_)
\* str.split(','): the pieces between the commas
SplitComma(atoms) ==
    LET c == FirstAtom(atoms, ",", 1)
    IN  IF c = 0 THEN <<atoms>>
        ELSE <<SubSeq(atoms, 1, c - 1)>>
                 \o SplitComma(SubSeq(atoms, c + 1, Len(atoms)))

RECURSIVE StrippedNonEmpty(_, _)
\* [d.strip() for d in pieces if d.strip()]
StrippedNonEmpty(pieces, i) ==
    IF i > Len(pieces) THEN <<>>
    ELSE IF Strip(pieces[i]) = "" THEN StrippedNonEmpty(pieces, i + 1)
    ELSE <<Strip(pieces[i])>> \o StrippedNonEmpty(pieces, i + 1)

ComponentType ==
    {"service", "frontend", "backend", "library", "module", "worker",
     "api_gateway", "database"}

\* mutant: the value of the Type line is stored without the enum lookup
TypeOrKeepUnchecked(current, type_str) == type_str

\* try: component_data['type'] = ComponentType(type_str) / except: pass
TypeOrKeep(current, type_str) ==
    IF type_str \in ComponentType THEN type_str ELSE current

\* component_data before the detail lines are read
ComponentDefaults(name) ==
    [name |-> name,
     type |-> "service",
     path |-> "/",
     technology |-> "unknown",
     complexity |-> "medium",
     dependencies |-> <<>>,
     description |-> ""]

\* the if / elif chain applied to one line of the details
ApplyLine(data, line) ==
    IF HasKey(line, "**Type**")
    THEN [data EXCEPT !.type = TypeOrKeep(data.type, Strip(AfterColon(line)))]
    ELSE IF HasKey(line, "**Path**")
    THEN [data EXCEPT !.path = Strip(AfterColon(line))]
    ELSE IF HasKey(line, "**Technology**")
    THEN [data EXCEPT !.technology = Strip(AfterColon(line))]
    ELSE IF HasKey(line, "**Complexity**")
    THEN [data EXCEPT !.complexity = Strip(AfterColon(line))]
    ELSE IF HasKey(line, "**Dependencies**")
    THEN [data EXCEPT !.dependencies =
              StrippedNonEmpty(SplitComma(LStrip(RStrip(AfterColon(line)))), 1)]
    ELSE IF HasKey(line, "**Description**")
    THEN [data EXCEPT !.description = Strip(AfterColon(line))]
    ELSE data

RECURSIVE ApplyLines(_, _, _, _)
\* for line in details.split('\n'), over lines i..j
ApplyLines(data, lines, i, j) ==
    IF i > j THEN data
    ELSE ApplyLines(ApplyLine(data, lines[i]), lines, i + 1, j)

ComponentLiteral == "### Component: "

\* atoms that begin with "###"
H3Atoms == {ComponentLiteral, "### ", "### Component:"}

StartsH3(line) == line # <<>> /\ line[1] \in H3Atoms

IsHeader(line) == line # <<>> /\ line[1] = ComponentLiteral

RECURSIVE NextH3(_, _)
\* the first line at or after i that begins with "###", Len + 1 if none
NextH3(lines, i) ==
    IF i > Len(lines) THEN i
    ELSE IF StartsH3(lines[i]) THEN i
    ELSE NextH3(lines, i + 1)

RECURSIVE ParseComponents(_, _, _)
\* re.findall(r'### Component: (.*?)\n(.*?)(?=###|$)', content, re.DOTALL)
\* and the loop over its matches, scanning from line i: a header needs the
\* newline that ends its line, and its details end before the next "###"
ParseComponents(lines, i, final_newline) ==
    IF i > Len(lines) THEN <<>>
    ELSE IF IsHeader(lines[i]) /\ (i < Len(lines) \/ final_newline)
    THEN LET j == NextH3(lines, i + 1)
             name == Strip(Tail(lines[i]))
         IN  <<ApplyLines(ComponentDefaults(name), lines, i + 1, j - 1)>>
                 \o ParseComponents(lines, j, final_newline)
    ELSE ParseComponents(lines, i + 1, final_newline)

\* a code fence is written ''' here; the file has three backquotes
MermaidOpen == "'''mermaid"

Fences == {"'''", MermaidOpen}

RECURSIVE FirstLine(_, _, _)
\* the first line at or after i whose first atom is in set S, 0 if none
FirstLine(lines, S, i) ==
    IF i > Len(lines) THEN 0
    ELSE IF lines[i] # <<>> /\ lines[i][1] \in S THEN i
    ELSE FirstLine(lines, S, i + 1)

RECURSIVE JoinLines(_, _, _)
JoinLines(lines, i, j) ==
    IF i > j THEN ""
    ELSE IF i = j THEN Join(lines[i], 1)
    ELSE Join(lines[i], 1) \o "\n" \o JoinLines(lines, i + 1, j)

\* re.search(r"'''mermaid\n(.*?)\n'''", content, re.DOTALL): group 1, or
\* the initial "" when nothing matches
architecture_diagram(lines) ==
    LET open == FirstLine(lines, {MermaidOpen}, 1)
        close == IF open = 0 THEN 0 ELSE FirstLine(lines, Fences, open + 2)
    IN  IF open = 0 \/ close = 0 \/ Len(lines[open]) # 1 THEN ""
        ELSE JoinLines(lines, open + 1, close - 1)

\* str.lower() of the atoms that are not lower case already
Lower(atom) ==
    CASE atom = "Monolith" -> "monolith"
      [] atom = "Modular" -> "modular"
      [] atom = "Microservices" -> "microservices"
      [] OTHER -> atom

\* keyword in content.lower()
Mentions(lines, keyword) ==
    \E i \in 1..Len(lines) : \E a \in 1..Len(lines[i]) :
        Lower(lines[i][a]) = keyword

system_type(lines) ==
    IF Mentions(lines, "microservices") THEN "microservices"
    ELSE IF Mentions(lines, "monolith") /\ Mentions(lines, "modular")
    THEN "modular_monolith"
    ELSE IF Mentions(lines, "monolith") THEN "monolith"
    ELSE IF Mentions(lines, "serverless") THEN "serverless"
    ELSE "unknown"

FileNotReadable ==
    [cls |-> "PermissionError", msg |-> "[Errno 13] Permission denied"]

\* _parse_manifest(manifest_path) run at time now on a file with this
\* content: the ArchitectureManifest, or what open() raised
parse_manifest(content, now) ==
    IF ~content.readable THEN [kind |-> "raised", exc |-> FileNotReadable]
    ELSE LET m == ArchitectureManifest(
                      ParseComponents(content.lines, 1, content.final_newline))
         IN  [kind |-> "manifest",
              system_type |-> system_type(content.lines),
              architecture_diagram |-> architecture_diagram(content.lines),
              components |-> m.components,
              total_components |-> m.total_components,
              estimated_parallel_agents |-> m.estimated_parallel_agents,
              breakdown_rationale |->
                  "Components identified based on service boundaries and logical modules",
              analysis_metadata |-> [analyzer_version |-> "1.0.0",
                                     analysis_duration |-> "unknown"],
              generated_at |-> now]

\* the lines the manifest texts are made of
LineSamples ==
    { <<ComponentLiteral, "A">>,
      <<ComponentLiteral, "B", " ">>,
      <<"### ", "Notes">>,
      <<"- ", "**Type**", ":", " ", "frontend">>,
      <<"- ", "**Type**", ":", " ", "Frontend">>,
      <<"- ", "**Path**", ":", " ", "src/a", " ">>,
      <<"**Dependencies**", ":", " ", "auth", ",", " ", ",", "db">>,
      <<MermaidOpen>>,
      <<"'''">>,
      <<"A", " ", "Monolith">> }

ManifestTexts ==
    [lines : SeqsUpTo(LineSamples, MaxLines), final_newline : BOOLEAN,
     readable : BOOLEAN]

\* datetime.now().isoformat() at the moments a parse can run
Times == {"2025-01-01T10:00:00.000001", "2025-01-01T10:00:00.000002"}

\* a manifest file is on disk and _parse_manifest has not been called
InitMP ==
    /\ entry = "parse_manifest"
    /\ pc = "mp"
    /\ cfg = NoneV
    /\ archOut = NoneV
    /\ manifest = <<>>
    /\ total_components = 0
    /\ k = 0
    /\ sem = 0
    /\ tstate = <<>>
    /\ agentRet = <<>>
    /\ taskExc = <<>>
    /\ orchResult = NoneV
    /\ kv = 0
    /\ vsem = 0
    /\ vsel = <<>>
    /\ vstate = <<>>
    /\ vret = <<>>
    /\ valResult = NoneV
    /\ buildOut = NoneV
    /\ caIn = NoneV
    /\ caOut = NoneV
    /\ vaIn = NoneV
    /\ vaOut = NoneV
    /\ RCIdle
    /\ JMIdle
    /\ AAIdle
    /\ CCIdle
    /\ mpContent \in ManifestTexts
    /\ mpFirst = NoneV
    /\ mpSecond = NoneV

\* the first call of _parse_manifest on the file
ParseFirst ==
    /\ mpContent # NoneV
    /\ mpFirst = NoneV
    /\ \E now \in Times : mpFirst' = parse_manifest(mpContent, now)
    /\ UNCHANGED <<buildVars, caVars, vaVars, rcVars, jmVars, aaVars, ccVars,
                   mpContent,
                   mpSecond>>

\* a second call on the unchanged file
ParseSecond ==
    /\ mpFirst # NoneV
    /\ mpSecond = NoneV
    /\ \E now \in Times : mpSecond' = parse_manifest(mpContent, now)
    /\ UNCHANGED <<buildVars, caVars, vaVars, rcVars, jmVars, aaVars, ccVars,
                   mpContent,
                   mpFirst>>

NextMP ==
    \/ ParseFirst
    \/ ParseSecond

SpecMP == InitMP /\ [][NextMP]_vars

-----------------------------------------------------------------------------
(* ArchitectureAgent.analyze, message by message.  progress_callback is     *)
(* None and architecture_manifest.json can be written.                      *)

WarnPercent == 95

Percent == 100

\* int(max_turns * 0.95)
turn_warning_threshold(max_turns) == (WarnPercent * max_turns) \div Percent

\* mutant: only a missing path is rejected
RepoInvalidMissingOnly(repoExists, repoIsDir) == ~repoExists

\* not repo_path.exists(), or not repo_path.is_dir()
RepoInvalid(repoExists, repoIsDir) == ~repoExists \/ ~repoIsDir

\* the exception analyze() raises for these facts, NoneV when it goes on to
\* parse the manifest
AnalyzeException(repoExists, repoIsDir, out) ==
    LET errs == AnalyzeErrors(repoExists, repoIsDir, out)
    IN  IF errs = <<>> THEN NoneV
        ELSE IF RepoInvalid(repoExists, repoIsDir)
        THEN [cls |-> "ValueError", msg |-> errs[1]]
        ELSE IF out.streamRaises THEN InvokerError
        ELSE [cls |-> "RuntimeError", msg |-> errs[1]]

\* manifest files the stream can leave at output_path
ManifestFiles ==
    { [lines |-> << <<ComponentLiteral, "A">>,
                    <<"- ", "**Type**", ":", " ", "frontend">> >>,
       final_newline |-> TRUE, readable |-> TRUE],
      [lines |-> << <<"A", " ", "Monolith">> >>,
       final_newline |-> TRUE, readable |-> TRUE],
      [lines |-> <<>>, final_newline |-> FALSE, readable |-> FALSE] }

\* the arguments of analyze() and what the world does during the call: the
\* stream yields length messages and then ends or raises; message writeAt
\* (0: none) carries a Write whose path ends in architecture_manifest.md,
\* which writtenThere says went to output_path/architecture_manifest.md;
\* fileExists and content describe that path when the stream is over
AnalyzeInputs ==
    {a \in [repoExists : BOOLEAN, repoIsDir : BOOLEAN,
            max_turns : 1..MaxTurns, length : 0..(MaxTurns + 1),
            raises : BOOLEAN, writeAt : 0..(MaxTurns + 1),
            writtenThere : BOOLEAN, fileExists : BOOLEAN,
            content : ManifestFiles] :
        /\ a.repoIsDir => a.repoExists
        /\ a.writeAt <= a.length
        /\ a.writtenThere => (a.writeAt > 0 /\ a.fileExists)
        /\ ~a.fileExists =>
               a.content = [lines |-> <<>>, final_newline |-> FALSE,
                            readable |-> FALSE]}

InitAA ==
    /\ entry = "analyze"
    /\ pc = "aa"
    /\ cfg = NoneV
    /\ archOut = NoneV
    /\ manifest = <<>>
    /\ total_components = 0
    /\ k = 0
    /\ sem = 0
    /\ tstate = <<>>
    /\ agentRet = <<>>
    /\ taskExc = <<>>
    /\ orchResult = NoneV
    /\ kv = 0
    /\ vsem = 0
    /\ vsel = <<>>
    /\ vstate = <<>>
    /\ vret = <<>>
    /\ valResult = NoneV
    /\ buildOut = NoneV
    /\ caIn = NoneV
    /\ caOut = NoneV
    /\ vaIn = NoneV
    /\ vaOut = NoneV
    /\ RCIdle
    /\ JMIdle
    /\ MPIdle
    /\ CCIdle
    /\ aaIn \in AnalyzeInputs
    /\ aaPc = "start"
    /\ turn_count = 0
    /\ manifest_created = FALSE
    /\ warnings = 0
    /\ aaSaved = FALSE
    /\ aaInvoked = FALSE
    /\ aaOut = NoneV

\* what the run has shown when the stream is over
StreamOutcome ==
    [streamRaises |-> aaIn.raises,
     writeSeen |-> manifest_created,
     fileExists |-> aaIn.fileExists,
     atLimit |-> turn_count >= turn_warning_threshold(aaIn.max_turns)]

\* the repository checks, then query() is called
AAValidate ==
    /\ aaPc = "start"
    /\ IF RepoInvalid(aaIn.repoExists, aaIn.repoIsDir)
       THEN /\ aaOut' = [kind |-> "raised",
                         exc |-> AnalyzeException(aaIn.repoExists,
                                                  aaIn.repoIsDir,
                                                  StreamOutcome)]
            /\ aaPc' = "done"
            /\ UNCHANGED aaInvoked
       ELSE /\ aaInvoked' = TRUE
            /\ aaPc' = "stream"
            /\ UNCHANGED aaOut
    /\ UNCHANGED <<buildVars, caVars, vaVars, rcVars, jmVars, mpVars, ccVars,
                   aaIn, turn_count, manifest_created, warnings, aaSaved>>

\* one message of the stream: the body of the async for
AAMessage ==
    /\ aaPc = "stream"
    /\ turn_count < aaIn.length
    /\ turn_count' = turn_count + 1
    /\ warnings' = IF turn_count' = turn_warning_threshold(aaIn.max_turns)
                   THEN warnings + 1
                   ELSE warnings
    /\ manifest_created' = (manifest_created \/ aaIn.writeAt = turn_count')
    /\ UNCHANGED <<buildVars, caVars, vaVars, rcVars, jmVars, mpVars, ccVars,
                   aaIn, aaPc, aaSaved, aaInvoked, aaOut>>

\* the stream raises or ends; after its end the manifest check, the parse
\* and the JSON copy
AAStreamEnd ==
    /\ aaPc = "stream"
    /\ turn_count = aaIn.length
    /\ LET e == AnalyzeException(aaIn.repoExists, aaIn.repoIsDir,
                                 StreamOutcome)
       IN  IF e # NoneV
           THEN /\ aaOut' = [kind |-> "raised", exc |-> e]
                /\ UNCHANGED aaSaved
           ELSE \E now \in Times :
                   LET m == parse_manifest(aaIn.content, now)
                   IN  /\ aaOut' = m
                       /\ aaSaved' = (m.kind = "manifest")
    /\ aaPc' = "done"
    /\ UNCHANGED <<buildVars, caVars, vaVars, rcVars, jmVars, mpVars, ccVars,
                   aaIn, turn_count, manifest_created, warnings, aaInvoked>>

NextAA ==
    \/ AAValidate
    \/ AAMessage
    \/ AAStreamEnd

SpecAA == InitAA /\ [][NextAA]_vars

\* ---------------------------------------------------------------------------
\* Python numbers of cost_calculator.py.  Token counts are Python ints.  Costs
\* and prices are Python floats, i.e. IEEE-754 binary64 values, and every
\* float operation rounds its exact result to the nearest binary64 value, ties
\* to even.  A positive float is [m, e] with value m * 2^e, where m has
\* exactly MantissaBits bits; m is a natural number written as its digits in
\* base LimbBase, least significant first, so that equal floats are equal
\* records.  Only zero and positive normal values occur (costs are products
\* and sums of non-negative numbers far from the ends of the exponent range).
\* ---------------------------------------------------------------------------
LimbBits == 10

LimbBase == 2 ^ LimbBits

MantissaBits == 53

RECURSIVE Trim(_)
Trim(a) ==
    IF a = <<>> THEN <<>>
    ELSE IF a[Len(a)] = 0 THEN Trim(SubSeq(a, 1, Len(a) - 1))
    ELSE a

RECURSIVE BigInt(_)
BigInt(n) ==
    IF n = 0 THEN <<>> ELSE <<n % LimbBase>> \o BigInt(n \div LimbBase)

RECURSIVE AddCarry(_, _, _)
AddCarry(a, b, c) ==
    IF a = <<>> /\ b = <<>> THEN BigInt(c)
    ELSE LET x == IF a = <<>> THEN 0 ELSE Head(a)
             y == IF b = <<>> THEN 0 ELSE Head(b)
             s == x + y + c
         IN  <<s % LimbBase>>
                 \o AddCarry(IF a = <<>> THEN <<>> ELSE Tail(a),
                             IF b = <<>> THEN <<>> ELSE Tail(b),
                             s \div LimbBase)

BigAdd(a, b) == AddCarry(a, b, 0)

RECURSIVE SubBorrow(_, _, _)
SubBorrow(a, b, c) ==
    IF a = <<>> THEN <<>>
    ELSE LET y == IF b = <<>> THEN 0 ELSE Head(b)
             s == Head(a) - y - c
         IN  <<s % LimbBase>>
                 \o SubBorrow(Tail(a), IF b = <<>> THEN <<>> ELSE Tail(b),
                              IF s < 0 THEN 1 ELSE 0)

\* a - b for a >= b
BigSub(a, b) == Trim(SubBorrow(a, b, 0))

RECURSIVE BigLess(_, _)
BigLess(a, b) ==
    IF Len(a) # Len(b) THEN Len(a) < Len(b)
    ELSE IF a = <<>> THEN FALSE
    ELSE IF a[Len(a)] # b[Len(b)] THEN a[Len(a)] < b[Len(b)]
    ELSE BigLess(Trim(SubSeq(a, 1, Len(a) - 1)), Trim(SubSeq(b, 1, Len(b) - 1)))

BigAbsDiff(a, b) == IF BigLess(a, b) THEN BigSub(b, a) ELSE BigSub(a, b)

RECURSIVE MulSmallCarry(_, _, _)
MulSmallCarry(a, s, c) ==
    IF a = <<>> THEN BigInt(c)
    ELSE LET p == Head(a) * s + c
         IN  <<p % LimbBase>> \o MulSmallCarry(Tail(a), s, p \div LimbBase)

\* a * s for a natural number s below 2^20
BigMulSmall(a, s) == Trim(MulSmallCarry(a, s, 0))

RECURSIVE BigMul(_, _)
BigMul(a, b) ==
    IF a = <<>> \/ b = <<>> THEN <<>>
    ELSE LET rest == BigMul(a, Tail(b))
         IN  BigAdd(BigMulSmall(a, Head(b)),
                    IF rest = <<>> THEN <<>> ELSE <<0>> \o rest)

\* quotient (digits not trimmed) and remainder of a by a divisor below 2^21
RECURSIVE DivSmall(_, _)
DivSmall(a, d) ==
    IF a = <<>> THEN [q |-> <<>>, r |-> 0]
    ELSE LET hi == DivSmall(Tail(a), d)
             cur == hi.r * LimbBase + Head(a)
         IN  [q |-> <<cur \div d>> \o hi.q, r |-> cur % d]

Zeros(n) == [i \in 1..n |-> 0]

\* a * 2^bits for a # 0
ShiftLeft(a, bits) ==
    BigMulSmall(Zeros(bits \div LimbBits) \o a, 2 ^ (bits % LimbBits))

\* floor(a / 2^bits), and whether a nonzero bit was shifted out
ShiftRight(a, bits) ==
    LET n == bits \div LimbBits
        d == DivSmall(SubSeq(a, n + 1, Len(a)), 2 ^ (bits % LimbBits))
    IN  [q |-> Trim(d.q),
         inexact |-> d.r # 0 \/ \E i \in 1..n : i <= Len(a) /\ a[i] # 0]

RECURSIVE SmallBitLength(_)
SmallBitLength(n) == IF n = 0 THEN 0 ELSE 1 + SmallBitLength(n \div 2)

BitLength(a) ==
    IF a = <<>> THEN 0
    ELSE (Len(a) - 1) * LimbBits + SmallBitLength(a[Len(a)])

IsOdd(a) == a # <<>> /\ a[1] % 2 = 1

FloatZero == [m |-> <<>>, e |-> 0]

\* The binary64 value nearest to num * 2^e (plus, when sticky, a positive amount
\* below 2^e), ties to even.
RoundNearestEven(num, e, sticky) ==
    IF num = <<>> THEN FloatZero
    ELSE LET L == BitLength(num)
         IN  IF L <= MantissaBits
             THEN [m |-> ShiftLeft(num, MantissaBits - L),
                   e |-> e - (MantissaBits - L)]
             ELSE LET s == L - MantissaBits
                      sh == ShiftRight(num, s - 1)
                      kept == ShiftRight(sh.q, 1).q
                      up == IsOdd(sh.q)
                                /\ (sticky \/ sh.inexact \/ IsOdd(kept))
                      m1 == IF up THEN BigAdd(kept, <<1>>) ELSE kept
                  IN  IF BitLength(m1) > MantissaBits
                      THEN [m |-> ShiftRight(m1, 1).q, e |-> e + s + 1]
                      ELSE [m |-> m1, e |-> e + s]

QuotientBits == 76

\* Python's int / int for 0 <= n < 2^31 and 0 < d < 2^21: the float nearest
\* to the exact quotient.  A decimal float literal with two decimals is the
\* float nearest to its value, FloatDiv(hundredths, 100).
FloatDiv(n, d) ==
    LET qr == DivSmall(ShiftLeft(BigInt(n), QuotientBits), d)
    IN  IF n = 0 THEN FloatZero
        ELSE RoundNearestEven(Trim(qr.q), 0 - QuotientBits, qr.r # 0)

FloatMul(x, y) ==
    IF x = FloatZero \/ y = FloatZero THEN FloatZero
    ELSE RoundNearestEven(BigMul(x.m, y.m), x.e + y.e, FALSE)

FloatAdd(x, y) ==
    IF x = FloatZero THEN y
    ELSE IF y = FloatZero THEN x
    ELSE LET e == IF x.e < y.e THEN x.e ELSE y.e
         IN  RoundNearestEven(BigAdd(ShiftLeft(x.m, x.e - e),
                                     ShiftLeft(y.m, y.e - e)), e, FALSE)

\* ---------------------------------------------------------------------------
\* CostCalculator (utils/cost_calculator.py)
\* ---------------------------------------------------------------------------
ClaudeModel ==
    {"claude-4-opus", "claude-4-sonnet", "claude-3.5-sonnet",
     "claude-3.5-haiku", "claude-3-opus", "claude-3-sonnet", "claude-3-haiku"}

Hundredths == 100

\* ModelPricing(input_cost_per_million, output_cost_per_million, model_name);
\* a price literal such as 0.80 is written here as its hundredths
ModelPricing(input_hundredths, output_hundredths, model_name) ==
    [input_cost_per_million |-> FloatDiv(input_hundredths, Hundredths),
     output_cost_per_million |-> FloatDiv(output_hundredths, Hundredths),
     model_name |-> model_name]

CLAUDE_PRICING(m) ==
    CASE m = "claude-4-opus" -> ModelPricing(1500, 7500, "Claude 4 Opus")
      [] m = "claude-4-sonnet" -> ModelPricing(300, 1500, "Claude 4 Sonnet")
      [] m = "claude-3.5-sonnet" -> ModelPricing(300, 1500, "Claude 3.5 Sonnet")
      [] m = "claude-3.5-haiku" -> ModelPricing(80, 400, "Claude 3.5 Haiku")
      [] m = "claude-3-opus" -> ModelPricing(1500, 7500, "Claude 3 Opus")
      [] m = "claude-3-sonnet" -> ModelPricing(300, 1500, "Claude 3 Sonnet")
      [] m = "claude-3-haiku" -> ModelPricing(25, 125, "Claude 3 Haiku")

TokenUsage(input_tokens, output_tokens, operation_name, component_name) ==
    [input_tokens |-> input_tokens, output_tokens |-> output_tokens,
     operation_name |-> operation_name, component_name |-> component_name]

Million == 1000000

\* (tokens / 1_000_000) * cost_per_million
TokenCost(tokens, cost_per_million) ==
    FloatMul(FloatDiv(tokens, Million), cost_per_million)

RECURSIVE SumTokens(_, _)
SumTokens(usages, field) ==
    IF usages = <<>> THEN 0
    ELSE Head(usages)[field] + SumTokens(Tail(usages), field)

UsageCostInputOnly(pricing, input_tokens, output_tokens) ==
    TokenCost(input_tokens, pricing.input_cost_per_million)

\* input cost + output cost of some tokens at a pricing
UsageCost(pricing, input_tokens, output_tokens) ==
    FloatAdd(TokenCost(input_tokens, pricing.input_cost_per_million),
             TokenCost(output_tokens, pricing.output_cost_per_million))

PhaseKeys == {"architecture_analysis", "component_analysis", "validation"}

phase_mapping(phase_key) ==
    CASE phase_key = "architecture_analysis" -> "Phase 1: Architecture"
      [] phase_key = "component_analysis" -> "Phase 2: Components"
      [] phase_key = "validation" -> "Phase 3: Validation"

\* operation_name.lower()
LowerName(operation_name) ==
    CASE operation_name = "Component_Analysis" -> "component_analysis"
      [] OTHER -> operation_name

\* phase_key in operation_name.lower(); none of the operation names used here
\* has a phase key as a proper part
PhaseKeyIn(phase_key, operation_name) == LowerName(operation_name) = phase_key

phase_usages(usages, phase_key) ==
    SelectSeq(usages, LAMBDA u : PhaseKeyIn(phase_key, u.operation_name))

phase_costs(pricing, usages) ==
    LET present == {pk \in PhaseKeys : phase_usages(usages, pk) # <<>>}
    IN  [name \in {phase_mapping(pk) : pk \in present} |->
            LET phase_key == CHOOSE pk \in present : phase_mapping(pk) = name
                us == phase_usages(usages, phase_key)
            IN  UsageCost(pricing, SumTokens(us, "input_tokens"),
                          SumTokens(us, "output_tokens"))]

RECURSIVE component_costs(_, _, _)
component_costs(pricing, usages, acc) ==
    IF usages = <<>> THEN acc
    ELSE LET u == Head(usages)
             cost == UsageCost(pricing, u.input_tokens, u.output_tokens)
             next ==
                 IF u.component_name = NullV THEN acc
                 ELSE [n \in DOMAIN acc \cup {u.component_name} |->
                         IF n # u.component_name THEN acc[n]
                         ELSE FloatAdd(IF n \in DOMAIN acc THEN acc[n]
                                       ELSE FloatZero, cost)]
         IN  component_costs(pricing, Tail(usages), next)

operation_costs(pricing, usages) ==
    [i \in 1..Len(usages) |->
        [operation |-> usages[i].operation_name,
         component |-> usages[i].component_name,
         input_tokens |-> usages[i].input_tokens,
         output_tokens |-> usages[i].output_tokens,
         cost |-> UsageCost(pricing, usages[i].input_tokens,
                            usages[i].output_tokens)]]

\* calculate_cost() of a calculator with this pricing and these usages
CostBreakdown(pricing, usages) ==
    IF usages = <<>>
    THEN [total_input_tokens |-> 0, total_output_tokens |-> 0,
          total_tokens |-> 0, input_cost |-> FloatZero,
          output_cost |-> FloatZero, total_cost |-> FloatZero,
          model_used |-> pricing.model_name, phase_costs |-> <<>>,
          component_costs |-> <<>>, operation_costs |-> <<>>]
    ELSE LET total_input_tokens == SumTokens(usages, "input_tokens")
             total_output_tokens == SumTokens(usages, "output_tokens")
             input_cost ==
                 TokenCost(total_input_tokens, pricing.input_cost_per_million)
             output_cost ==
                 TokenCost(total_output_tokens, pricing.output_cost_per_million)
         IN  [total_input_tokens |-> total_input_tokens,
              total_output_tokens |-> total_output_tokens,
              total_tokens |-> total_input_tokens + total_output_tokens,
              input_cost |-> input_cost,
              output_cost |-> output_cost,
              total_cost |-> FloatAdd(input_cost, output_cost),
              model_used |-> pricing.model_name,
              phase_costs |-> phase_costs(pricing, usages),
              component_costs |-> component_costs(pricing, usages, <<>>),
              operation_costs |-> operation_costs(pricing, usages)]

\* the calls of add_token_usage that are tried
UsageSamples ==
    {TokenUsage(0, 0, "architecture_analysis", NullV),
     TokenUsage(1, 0, "architecture_analysis", NullV),
     TokenUsage(0, 1, "Component_Analysis", "api"),
     TokenUsage(0, 2, "Component_Analysis", "api"),
     TokenUsage(25000, 8000, "Component_Analysis", "worker")}

\* CostCalculator(model): no usage recorded yet
InitCC ==
    /\ entry = "calculate_cost"
    /\ pc = "cc"
    /\ cfg = NoneV
    /\ archOut = NoneV
    /\ manifest = <<>>
    /\ total_components = 0
    /\ k = 0
    /\ sem = 0
    /\ tstate = <<>>
    /\ agentRet = <<>>
    /\ taskExc = <<>>
    /\ orchResult = NoneV
    /\ kv = 0
    /\ vsem = 0
    /\ vsel = <<>>
    /\ vstate = <<>>
    /\ vret = <<>>
    /\ valResult = NoneV
    /\ buildOut = NoneV
    /\ caIn = NoneV
    /\ caOut = NoneV
    /\ vaIn = NoneV
    /\ vaOut = NoneV
    /\ RCIdle
    /\ JMIdle
    /\ MPIdle
    /\ AAIdle
    /\ model \in ClaudeModel
    /\ token_usages = <<>>
    /\ ccOut = NoneV

\* add_token_usage(input_tokens, output_tokens, operation_name, component_name)
AddTokenUsage ==
    /\ model # ""
    /\ Len(token_usages) < MaxUsage
    /\ \E usage \in UsageSamples :
           token_usages' = Append(token_usages, usage)
    /\ ccOut' = NoneV
    /\ UNCHANGED <<buildVars, caVars, vaVars, rcVars, jmVars, mpVars, aaVars,
                   model>>

\* calculate_cost(): ccOut is the CostBreakdown it returns
CalculateCost ==
    /\ model # ""
    /\ ccOut' = CostBreakdown(CLAUDE_PRICING(model), token_usages)
    /\ UNCHANGED <<buildVars, caVars, vaVars, rcVars, jmVars, mpVars, aaVars,
                   model, token_usages>>

NextCC ==
    \/ AddTokenUsage
    \/ CalculateCost

SpecCC == InitCC /\ [][NextCC]_vars

-----------------------------------------------------------------------------
(* Properties *)

Occurrences(seq, x) == Cardinality({i \in 1..Len(seq) : seq[i] = x})

RunningCount == Cardinality({i \in DOMAIN tstate : tstate[i] = "running"})

\* the component tasks whose agent returned success == true
SucceededTasks ==
    {i \in DOMAIN tstate : tstate[i] = "returned" /\ agentRet[i].success}

\* the validation tasks whose Validation Agent has been invoked
InvokedValidations == {j \in DOMAIN vstate : vstate[j] # "pending"}

BuildSucceeded ==
    buildOut # NoneV /\ buildOut.kind = "result" /\ buildOut.success

\* C1: with max_concurrent_agents = k, the number of Component Agent
\* invocations that have started and not yet finished never exceeds k.
C1_ConcurrencyBound ==
    entry \in {"orchestrate", "build"} => RunningCount <= k

\* k invocations run while a further component waits for a permit
C1_Witness ==
    /\ entry = "orchestrate"
    /\ Len(manifest) > k
    /\ RunningCount = k
    /\ \E i \in DOMAIN tstate : tstate[i] = "pending"
    /\ \E i \in DOMAIN tstate : tstate[i] \in {"returned", "raised"}

\* C2: whatever subset of component tasks raises, the orchestration returns
\* a result with total_components = len(manifest.components), every task
\* has run to its end, and the result recorded for each task that did not
\* raise is the one its agent returned.
C2_ComponentIsolation ==
    (entry \in {"orchestrate", "build"} /\ orchResult # NoneV) =>
        /\ orchResult.total_components = Len(manifest)
        /\ \A i \in 1..Len(manifest) : tstate[i] \in {"returned", "raised"}
        /\ \A i \in 1..Len(manifest) :
              tstate[i] = "returned" =>
                  Occurrences(orchResult.component_results, agentRet[i]) =
                      Cardinality({j \in 1..Len(manifest) :
                                      /\ tstate[j] = "returned"
                                      /\ agentRet[j] = agentRet[i]})

\* the orchestration returned although one task raised and a sibling succeeded
C2_Witness ==
    /\ pc = "o_returned"
    /\ \E i \in DOMAIN tstate : tstate[i] = "raised"
    /\ SucceededTasks # {}

\* C3: build_memory_bank always ends with a BuildResult, never with an
\* exception; a failure is a result with success = false and one error.
C3_AlwaysBuildResult ==
    buildOut # NoneV =>
        /\ buildOut.kind = "result"
        /\ ~buildOut.success => Len(buildOut.errors) = 1

C5_PhaseSkipping ==
    /\ (entry = "build" /\ pc \in {"o_create", "o_gather", "o_returned"}) =>
           Len(manifest) > 0
    /\ (entry = "build" /\ pc \in {"v_select", "v_gather", "v_returned"}) =>
           SucceededTasks # {}
    /\ BuildSucceeded =>
           /\ buildOut.metadata.phase_1_complete
           /\ buildOut.metadata.phase_2_complete = (Len(manifest) > 0)
           /\ buildOut.metadata.phase_2_complete = (orchResult # NoneV)
           /\ buildOut.metadata.phase_3_complete = (SucceededTasks # {})
           /\ buildOut.metadata.phase_3_complete = (valResult # NoneV)
           /\ buildOut.metadata.phase_3_complete =>
                  buildOut.metadata.phase_2_complete
           /\ buildOut.metadata.phase_2_complete =>
                  buildOut.metadata.phase_1_complete

\* a successful build in which Phase 2 ran and Phase 3 was skipped
C5_Witness ==
    /\ BuildSucceeded
    /\ buildOut.metadata.phase_2_complete
    /\ ~buildOut.metadata.phase_3_complete

\* C6: no Component Agent starts before the Architecture Agent has returned
\* the manifest, and no Validation Agent starts before every component task
\* of Phase 2 has finished.
C6_PhaseOrdering ==
    entry = "build" =>
        /\ (\E i \in DOMAIN tstate : tstate[i] # "pending") =>
               /\ archOut # NoneV
               /\ ~archOut.streamRaises
               /\ archOut.writeSeen
               /\ archOut.fileExists
               /\ Len(manifest) = Len(tstate)
        /\ InvokedValidations # {} =>
               \A i \in DOMAIN tstate : tstate[i] \in {"returned", "raised"}

\* a Validation Agent runs in a build whose Phase 2 had a raising task
C6_Witness ==
    /\ entry = "build"
    /\ \E j \in DOMAIN vstate : vstate[j] = "running"
    /\ \E i \in DOMAIN tstate : tstate[i] = "raised"

\* C7: when the Phase-2 result has no successful component, no Validation
\* Agent is invoked, and what orchestrate_validation returns is the zero
\* result tagged no_successful_components.
C7_ValidationGating ==
    (orchResult # NoneV /\ orchResult.successful_components = 0) =>
        /\ InvokedValidations = {}
        /\ pc # "v_gather"
        /\ valResult # NoneV =>
               /\ valResult.total_components = 0
               /\ valResult.components_passed = 0
               /\ valResult.components_failed = 0
               /\ valResult.components_partial = 0
               /\ valResult.total_issues_found = 0
               /\ valResult.total_issues_fixed = 0
               /\ valResult.validation_results = <<>>
               /\ valResult.reason = "no_successful_components"

\* orchestrate_validation returned for a result list with failures only
C7_Witness ==
    /\ entry = "validate"
    /\ pc = "v_returned"
    /\ orchResult.successful_components = 0
    /\ orchResult.total_components > 0
    /\ valResult.reason = "no_successful_components"

\* C8: the components handed to a Validation Agent are exactly the manifest
\* components whose analysis succeeded, each validated exactly once; a
\* component whose analysis failed or raised is never validated.
C8_ExactlyTheSuccessfulComponents ==
    (entry = "build" /\ valResult # NoneV) =>
        \A c \in 1..Len(manifest) :
            Cardinality({j \in InvokedValidations : vsel[j].component = c}) =
                (IF c \in SucceededTasks THEN 1 ELSE 0)

\* What the join by name does guarantee: one invocation per Phase-2 result
\* that has success == true and whose name is in the manifest, always for
\* the first manifest component of that name; failed results and results
\* without a manifest entry are not submitted.
OneValidationPerSuccessfulResult ==
    valResult # NoneV =>
        LET rs == orchResult.component_results
            want == {i \in 1..Len(rs) :
                        /\ rs[i].success
                        /\ \E c \in 1..Len(manifest) :
                              manifest[c] = rs[i].component_name}
        IN  /\ Len(vsel) = Cardinality(want)
            /\ InvokedValidations = 1..Len(vsel)
            /\ \A j \in 1..Len(vsel) :
                  /\ vsel[j].result.success
                  /\ vsel[j].component \in 1..Len(manifest)
                  /\ manifest[vsel[j].component] = vsel[j].result.component_name
                  /\ \A c \in 1..(vsel[j].component - 1) :
                        manifest[c] # vsel[j].result.component_name
            /\ \A nm \in Names :
                  Cardinality({j \in 1..Len(vsel) :
                                  vsel[j].result.component_name = nm}) =
                  Cardinality({i \in want : rs[i].component_name = nm})

\* With pairwise distinct component names the selection is the one C8 states
UniqueNames ==
    \A a, b \in 1..Len(manifest) : manifest[a] = manifest[b] => a = b

ExactlyTheSuccessfulComponentsWhenUnique ==
    UniqueNames => C8_ExactlyTheSuccessfulComponents

\* C9: component_results holds one result per manifest component,
\* successful_components counts the agents that returned success == true,
\* failed_components counts all the others, and the two add up to
\* total_components = len(manifest.components).
C9_CountsPartition ==
    (entry \in {"orchestrate", "build"} /\ orchResult # NoneV) =>
        /\ Len(orchResult.component_results) = Len(manifest)
        /\ \A nm \in Names :
              Cardinality({i \in 1..Len(orchResult.component_results) :
                              orchResult.component_results[i].component_name = nm})
              = Cardinality({c \in 1..Len(manifest) : manifest[c] = nm})
        /\ orchResult.successful_components = Cardinality(SucceededTasks)
        /\ orchResult.failed_components =
               Len(manifest) - Cardinality(SucceededTasks)
        /\ orchResult.successful_components + orchResult.failed_components
               = orchResult.total_components
        /\ orchResult.total_components = Len(manifest)

\* a result over three components: one succeeded, one returned a failure,
\* one raised
C9_Witness ==
    /\ orchResult # NoneV
    /\ Len(manifest) = 3
    /\ orchResult.successful_components = 1
    /\ \E i \in DOMAIN tstate : tstate[i] = "raised"
    /\ \E i \in DOMAIN tstate : tstate[i] = "returned" /\ ~agentRet[i].success

\* C10: when the stream ends, success is true iff all six expected files
\* exist with more than 100 bytes, success == (missing_files == []),
\* created_files and missing_files partition the expected files, and the
\* Write events seen play no part.
C10_SuccessDefinition ==
    (caOut # NoneV /\ ~caIn.streamRaises) =>
        LET created == {caOut.created_files[i] : i \in 1..Len(caOut.created_files)}
            missing == {caOut.missing_files[i] : i \in 1..Len(caOut.missing_files)}
        IN  /\ caOut.success = (caOut.missing_files = <<>>)
            /\ caOut.success =
                   (\A i \in 1..6 : caIn.fs[i] # Absent /\ caIn.fs[i] > 100)
            /\ created \cup missing = {ExpectedFiles[i] : i \in 1..6}
            /\ created \cap missing = {}
            /\ Len(caOut.created_files) + Len(caOut.missing_files) = 6
            /\ \A i \in 1..6 :
                  ExpectedFiles[i] \in created <=>
                      (caIn.fs[i] # Absent /\ caIn.fs[i] > 100)

\* a result where one file has exactly 100 bytes and no Write was seen
C10_Witness ==
    /\ caOut # NoneV
    /\ ~caIn.streamRaises
    /\ caIn.writes = {}
    /\ \E i \in 1..6 : caIn.fs[i] = 100
    /\ \A i \in 1..6 : caIn.fs[i] >= 100
    /\ ~caOut.success

\* C11: whenever the agent invocation, or the handling of its stream, raises
\* an exception e, analyze_component returns the failed result of that
\* component: success is false, errors is [str(e)], and no file is reported.
C11_AgentFailureIsReturned ==
    (pc = "ca_done" /\ caIn.streamRaises) =>
        /\ caOut # NoneV
        /\ caOut.component_name = manifest[1]
        /\ ~caOut.success
        /\ caOut.errors = <<caIn.exc.msg>>
        /\ caOut.files_written = {}

\* the invocation raised after every expected file had been written in full
C11_Witness ==
    /\ pc = "ca_done"
    /\ caIn.streamRaises
    /\ caIn.exc.cls = "AttributeError"
    /\ caIn.fs = AllBig
    /\ caIn.writes = AllWrites
    /\ ~caOut.success

\* the exception a report makes the parsing raise, told from the report alone
BadEntry(d) == d.severity = "critical" \/ d.type = "bug"

ReportRaises(report) ==
    \/ report \in {Unreadable, InvalidJSON}
    \/ \E i \in DOMAIN report.issues : BadEntry(report.issues[i])

HardFail(r) ==
    /\ r.overall_status = "FAIL"
    /\ r.completeness_score = 0
    /\ r.accuracy_score = 0
    /\ r.issues_found = <<>>
    /\ r.issues_fixed = <<>>
    /\ r.fixes_applied = 0

\* C12: whenever the invocation, the reading of validation_report.json or the
\* parsing of its contents raises, validate_and_fix_component returns a
\* result with overall_status FAIL, both scores 0, no issues, fixes_applied 0
\* and the text of the exception as its error.
C12_FailuresAreCaptured ==
    (pc # "va_call" /\ vaOut # NoneV) =>
        /\ vaIn.streamRaises =>
              HardFail(vaOut) /\ vaOut.error = vaIn.exc.msg
        /\ (~vaIn.streamRaises /\ vaIn.writeSeen /\ vaIn.exists
                /\ ReportRaises(vaIn.report)) =>
              /\ HardFail(vaOut)
              /\ vaIn.report = Unreadable =>
                    vaOut.error = "[Errno 13] Permission denied"
              /\ vaIn.report = InvalidJSON =>
                    vaOut.error = "Expecting value: line 1 column 1 (char 0)"
              /\ vaIn.report \notin {Unreadable, InvalidJSON} =>
                    vaOut.error \in {"'critical' is not a valid IssueSeverity",
                                     "'bug' is not a valid IssueType"}

\* a report whose first entry is well formed and marked fixed and whose
\* second entry has a type outside the enum
C12_Witness ==
    /\ pc = "va_done"
    /\ ~vaIn.streamRaises
    /\ vaIn.writeSeen
    /\ vaIn.exists
    /\ vaIn.report \notin {Unreadable, InvalidJSON}
    /\ Len(vaIn.report.issues) = 2
    /\ vaIn.report.issues[1] = Issue("high", "missing", "true")
    /\ vaIn.report.issues[2].type = "bug"
    /\ vaIn.report.issues[2].severity = "high"
    /\ vaOut.error = "'bug' is not a valid IssueType"

\* C13: when the stream ends without error, the result is the hard FAIL with
\* error 'No validation report created' if and only if validation_report.json
\* is absent from the memory-bank path.
C13_NoReportIffAbsent ==
    (pc # "va_call" /\ vaOut # NoneV /\ ~vaIn.streamRaises) =>
        ((HardFail(vaOut) /\ vaOut.error = "No validation report created")
            <=> ~vaIn.exists)

\* C13 as the code has it: the hard FAIL with error 'No validation report
\* created' is returned if and only if no Write of validation_report.json was
\* seen in the stream or the file is absent; a report that was seen written
\* and is on disk is parsed, and the result is built from it unless the
\* parsing raises.
C13_NoReportIffNotSeenOrAbsent ==
    (pc # "va_call" /\ vaOut # NoneV /\ ~vaIn.streamRaises) =>
        /\ (HardFail(vaOut) /\ vaOut.error = "No validation report created")
              <=> (~vaIn.writeSeen \/ ~vaIn.exists)
        /\ (vaIn.writeSeen /\ vaIn.exists /\ ~ReportRaises(vaIn.report)) =>
              /\ vaOut.error = ""
              /\ Len(vaOut.issues_found) = Len(vaIn.report.issues)
              /\ vaOut.completeness_score = vaIn.report.completeness_score

\* a well-formed report is on disk, no Write of it was seen in the stream,
\* and the result says that no report was created
C13_Witness ==
    /\ pc = "va_done"
    /\ ~vaIn.streamRaises
    /\ ~vaIn.writeSeen
    /\ vaIn.exists
    /\ vaIn.report \notin {Unreadable, InvalidJSON}
    /\ vaIn.report.overall_status = "PASS"
    /\ vaOut.error = "No validation report created"

\* C14: every ValidationResult, returned by the Validation Agent or built by
\* the Validation Orchestrator for a task that raised, has fixes_applied
\* equal to the length of issues_fixed; in a result parsed from a report,
\* issues_fixed holds, in report order, exactly the issues whose entry has
\* fixed set to true.
C14_FixesAppliedIsLenIssuesFixed ==
    /\ (pc # "va_call" /\ vaOut # NoneV) =>
          /\ vaOut.fixes_applied = Len(vaOut.issues_fixed)
          /\ vaOut.error = "" =>
                /\ vaOut.issues_found = [i \in 1..Len(vaIn.report.issues) |-> i]
                /\ \A i \in 1..Len(vaIn.report.issues) :
                      (\E j \in 1..Len(vaOut.issues_fixed) :
                            vaOut.issues_fixed[j] = i)
                          <=> vaIn.report.issues[i].fixed = "true"
                /\ \A h, j \in 1..Len(vaOut.issues_fixed) :
                      h < j => vaOut.issues_fixed[h] < vaOut.issues_fixed[j]
    /\ (pc = "va_returned" /\ valResult # NoneV) =>
          \A i \in 1..Len(valResult.validation_results) :
              valResult.validation_results[i].fixes_applied
                  = Len(valResult.validation_results[i].issues_fixed)

\* a parsed report of two issues: the first has no fixed key, the second is
\* marked fixed
C14_Witness ==
    /\ pc = "va_returned"
    /\ vaOut.error = ""
    /\ Len(vaIn.report.issues) = 2
    /\ vaIn.report.issues[1].fixed = MissingKey
    /\ vaIn.report.issues[2].fixed = "true"
    /\ vaOut.issues_fixed = <<2>>
    /\ vaOut.fixes_applied = 1
    /\ valResult.total_issues_fixed = 1

\* C15: in every ValidationOrchestrationResult the three tallies count the
\* results by overall_status, total_issues_found is the sum of the lengths of
\* issues_found, total_issues_fixed the sum of fixes_applied, and
\* fix_success_rate, in the result and in the build metadata, is
\* total_issues_fixed / total_issues_found when total_issues_found > 0 and 0
\* otherwise, never a division by zero.
C15_ValidationAggregation ==
    /\ valResult # NoneV =>
          LET rs == valResult.validation_results
              found == UNION {{<<i, j>> : j \in 1..Len(rs[i].issues_found)} :
                                  i \in 1..Len(rs)}
              fixed == UNION {{<<i, j>> : j \in 1..rs[i].fixes_applied} :
                                  i \in 1..Len(rs)}
          IN  /\ valResult.components_passed =
                     Cardinality({i \in 1..Len(rs) : rs[i].overall_status = "PASS"})
              /\ valResult.components_partial =
                     Cardinality({i \in 1..Len(rs) : rs[i].overall_status = "PARTIAL"})
              /\ valResult.components_failed =
                     Cardinality({i \in 1..Len(rs) : rs[i].overall_status = "FAIL"})
              /\ valResult.total_issues_found = Cardinality(found)
              /\ valResult.total_issues_fixed = Cardinality(fixed)
              /\ valResult.reason = "" =>
                    valResult.fix_success_rate =
                        IF Cardinality(found) > 0
                        THEN [num |-> Cardinality(fixed), den |-> Cardinality(found)]
                        ELSE [num |-> 0, den |-> 1]
    /\ (BuildSucceeded /\ buildOut.metadata.phase_3_complete) =>
          buildOut.metadata.validation.fix_success_rate =
              IF valResult.total_issues_found > 0
              THEN [num |-> valResult.total_issues_fixed,
                    den |-> valResult.total_issues_found]
              ELSE [num |-> 0, den |-> 1]

\* a build whose validation passed one component and found another partial:
\* three issues found, two of them fixed
C15_Witness ==
    /\ BuildSucceeded
    /\ buildOut.metadata.phase_3_complete
    /\ valResult.components_passed = 1
    /\ valResult.components_partial = 1
    /\ valResult.components_failed = 1
    /\ valResult.total_issues_found = 3
    /\ valResult.total_issues_fixed = 2
    /\ buildOut.metadata.validation.fix_success_rate = [num |-> 2, den |-> 3]

RunningValidations ==
    Cardinality({j \in DOMAIN vstate : vstate[j] = "running"})

\* C16: a ValidationOrchestrator built with the limit c never has more than
\* min(c, 10) Validation Agent invocations running at once; built by the
\* Multi-Agent Builder its limit is min(10, successful_components).
C16_ValidationConcurrencyBound ==
    /\ entry = "validate" =>
          \E c \in ConfiguredLimits :
              /\ kv = (IF c < 10 THEN c ELSE 10)
              /\ RunningValidations <= (IF c < 10 THEN c ELSE 10)
    /\ (entry = "build" /\ pc \in {"v_select", "v_gather", "v_returned"}) =>
          /\ kv = (IF orchResult.successful_components < 10
                   THEN orchResult.successful_components ELSE 10)
          /\ RunningValidations <= kv

\* one validator runs while a second successful component waits for the permit
C16_Witness ==
    /\ entry = "validate"
    /\ kv = 1
    /\ Len(vsel) = 2
    /\ vstate[1] = "running"
    /\ vstate[2] = "pending"
    /\ vsem = 0

\* C17: when the task validating a component raises, orchestrate_validation
\* still returns a result that has one entry per validated component: for
\* the component whose task raised a FAIL entry bearing its name, with
\* fixes_applied 0, no issues and the text of the exception, and for every
\* other component the result its own agent returned.
C17_ValidationUnitIsolation ==
    (valResult # NoneV /\ valResult.reason = "") =>
        LET rs == valResult.validation_results
        IN  /\ Len(rs) = Len(vsel)
            /\ valResult.total_components = Len(vsel)
            /\ \A j \in 1..Len(vsel) :
                  /\ vstate[j] \in {"returned", "raised"}
                  /\ vstate[j] = "raised" =>
                        \E i \in 1..Len(rs) :
                            /\ rs[i].component_name = manifest[vsel[j].component]
                            /\ rs[i].component_name =
                                   vsel[j].result.component_name
                            /\ rs[i].overall_status = "FAIL"
                            /\ rs[i].fixes_applied = 0
                            /\ rs[i].issues_found = <<>>
                            /\ rs[i].issues_fixed = <<>>
                            /\ rs[i].error =
                                   "'NoneType' object has no attribute 'lower'"
                  /\ vstate[j] = "returned" =>
                        \E i \in 1..Len(rs) : rs[i] = vret[j]
            /\ Cardinality({i \in 1..Len(rs) :
                               rs[i].error =
                                   "'NoneType' object has no attribute 'lower'"})
                   = Cardinality({j \in 1..Len(vsel) : vstate[j] = "raised"})

\* the first validation task raised and the second returned a PASS result
C17_Witness ==
    /\ valResult # NoneV
    /\ Len(vsel) = 2
    /\ vstate[1] = "raised"
    /\ vstate[2] = "returned"
    /\ vret[2].overall_status = "PASS"
    /\ valResult.components_passed = 1
    /\ valResult.components_failed = 1

\* the invocations made so far all returned without a single Write event
OnlyZeroFileAttempts == \A i \in 1..Len(rcHist) : rcHist[i] = "zero"

\* C18: with auto_restart_on_early_termination set and an invoker that
\* writes no file on any attempt, the controller makes at most 2 invocations
\* whatever max_restart_attempts is, then returns the empty list, and
\* build_memory_bank reports a successful result with no files.
C18_ProgressStallTermination ==
    (rcCfg # NoneV /\ rcCfg.auto_restart_on_early_termination
        /\ rcCfg.max_restart_attempts >= 1 /\ OnlyZeroFileAttempts) =>
        /\ Len(rcHist) <= 2
        /\ rcPc \in {"done", "built"} =>
              rcOut.kind = "returned" /\ rcOut.files = <<>>
        /\ rcPc = "built" =>
              buildOut.success /\ buildOut.files_written = <<>>

\* with a budget of three attempts the controller gave up after the second
\* attempt that wrote nothing
C18_Witness ==
    /\ rcPc = "built"
    /\ rcCfg.auto_restart_on_early_termination
    /\ rcCfg.max_restart_attempts = 3
    /\ rcHist = <<"zero", "zero">>
    /\ rcOut.exit = "abort"
    /\ buildOut.success

\* C19: the controller invokes the agent at most max_restart_attempts
\* times, attempt never decreases, and the loop ends, so that
\* build_memory_bank produces its result.
C19_BoundedRestarts ==
    /\ [](rcCfg # NoneV => Len(rcHist) <= rcCfg.max_restart_attempts)
    /\ [][attempt' >= attempt]_vars
    /\ <>(rcPc = "built")

\* the whole budget of three attempts was used: an invocation error, then
\* files without enough core files, then an attempt that wrote nothing
C19_Witness ==
    /\ rcPc = "built"
    /\ rcCfg.max_restart_attempts = 3
    /\ rcHist = <<"raise", "files", "zero">>
    /\ attempt = 3

\* C20: when the controller stops because max_restart_attempts attempts
\* have been used, it returns the files accumulated over all attempts
\* instead of raising, and build_memory_bank returns a successful
\* BuildResult carrying them.
C20_ExhaustionReturnsAccumulated ==
    (rcPc = "built" /\ rcCfg.max_restart_attempts >= 1
        /\ Len(rcHist) = rcCfg.max_restart_attempts
        /\ rcOut.exit \in {"exhausted", "raised"}) =>
        /\ rcOut.kind = "returned"
        /\ rcOut.files = all_files_written
        /\ buildOut.success
        /\ buildOut.files_written = all_files_written

\* where the budget ends on an attempt that returned, the accumulated files
\* are returned
ExhaustionAfterReturnedAttempt ==
    (rcPc = "built" /\ rcOut.exit = "exhausted") =>
        /\ rcOut.kind = "returned"
        /\ rcOut.files = all_files_written
        /\ buildOut.success
        /\ buildOut.files_written = all_files_written

\* C21: after an attempt at whose end at least 2 of the 4 core files exist
\* in the memory-bank directory the controller makes no further invocation
\* and returns the files accumulated so far, and it never leaves through
\* the success return while fewer than 2 core files exist.
C21_CoreThresholdStops ==
    /\ [][(rcHist' # rcHist /\ EnoughCoreFiles(ExistingCoreFiles(disk'))) =>
            /\ rcPc' = "done"
            /\ rcOut'.kind = "returned"
            /\ rcOut'.files = all_files_written']_vars
    /\ [](rcOut # NoneV /\ rcOut.exit = "success" =>
            EnoughCoreFiles(ExistingCoreFiles(disk)))

\* an attempt that returned at least one file and left 2 core files behind
\* ends the loop with the accumulated files
CoreThresholdStopsAfterFiles ==
    (rcHist # <<>> /\ rcHist[Len(rcHist)] = "files"
        /\ EnoughCoreFiles(ExistingCoreFiles(disk))) =>
        /\ rcPc \in {"done", "built"}
        /\ rcOut.exit = "success"
        /\ rcOut.files = all_files_written

AllowedMoves ==
    { <<"pending", "running">>, <<"running", "completed">>,
      <<"running", "failed">>, <<"pending", "cancelled">> }

\* C22: whatever the interleaving of create_job, cancel_job and the
\* worker, a job's status changes only along PENDING -> RUNNING ->
\* {COMPLETED, FAILED} or PENDING -> CANCELLED, so a COMPLETED, FAILED or
\* CANCELLED job keeps its status for ever, and no job is dropped.
C22_JobLifecycle ==
    [][/\ Len(jobs') >= Len(jobs)
       /\ \A id \in DOMAIN jobs :
             jobs'[id].status # jobs[id].status =>
                 <<jobs[id].status, jobs'[id].status>> \in AllowedMoves]_vars

\* three jobs have reached the three terminal states, the cancelled one
\* having been taken from the queue by the worker afterwards, and a later
\* cancel_job of a finished job was refused
C22_Witness ==
    /\ Len(jobs) = 3
    /\ {jobs[id].status : id \in DOMAIN jobs} =
           {"completed", "failed", "cancelled"}
    /\ job_queue = <<>>
    /\ cancelRet # NoneV
    /\ ~cancelRet.ok
    /\ cancelRet.job_id \in DOMAIN jobs
    /\ jobs[cancelRet.job_id].status = "completed"

\* C23: the manifest the Architecture Agent produces has total_components
\* equal to the number of its components, only the architecture phase
\* writes the manifest, and neither the Orchestration Agent nor the
\* Validation Orchestrator changes it or the Phase-2 results once these
\* exist.
C23_ManifestCountAndReadOnly ==
    /\ [](total_components = Len(manifest))
    /\ [][(manifest' = manifest /\ total_components' = total_components)
            \/ pc = "b_phase1"]_vars
    /\ [][orchResult # NoneV => orchResult' = orchResult]_vars

\* a build over a manifest of three components has gone through both
\* orchestrators
C23_Witness ==
    /\ entry = "build"
    /\ pc = "b_done"
    /\ Len(manifest) = 3
    /\ total_components = 3
    /\ orchResult # NoneV
    /\ valResult # NoneV
    /\ valResult.total_components >= 1

\* C24: parsing the same manifest file twice yields two
\* ArchitectureManifest objects that are equal in every field.
C24_ParseIdempotence ==
    (mpSecond # NoneV /\ mpContent.readable) => mpSecond = mpFirst

\* the two results agree in every field but generated_at
ParseTwiceEqualUpToTimestamp ==
    (mpSecond # NoneV /\ mpContent.readable) =>
        [mpSecond EXCEPT !.generated_at = ""] =
            [mpFirst EXCEPT !.generated_at = ""]

\* the lines of the parsed text, and the positions of the headers that the
\* newline ending their line makes component blocks
TextLines == mpContent.lines

BlockHeaders ==
    LET n == Len(TextLines)
    IN  Filter([i \in 1..n |-> i],
               [i \in 1..n |-> /\ IsHeader(TextLines[i])
                               /\ (i < n \/ mpContent.final_newline)])

\* the lines of the block whose header is line i
BlockLines(i) ==
    {j \in (i + 1)..Len(TextLines) :
        \A h \in (i + 1)..j : ~StartsH3(TextLines[h])}

KeyMissing(i, key) == \A j \in BlockLines(i) : ~HasKey(TextLines[j], key)

NoKnownType(i) ==
    \A j \in BlockLines(i) :
        HasKey(TextLines[j], "**Type**") =>
            Strip(AfterColon(TextLines[j])) \notin ComponentType

\* C26: _parse_manifest does not raise on any text it can read; it makes
\* one component per "### Component:" block, a block whose Type is missing
\* or unknown gets type service, a field with no line keeps its default,
\* text without a Mermaid block gives an empty diagram, and text without a
\* component block gives components == [] and total_components == 0.
C26_TolerantParsing ==
    (mpFirst # NoneV /\ mpContent.readable) =>
        /\ mpFirst.kind = "manifest"
        /\ Len(mpFirst.components) = Len(BlockHeaders)
        /\ mpFirst.total_components = Len(mpFirst.components)
        /\ (\A i \in 1..Len(TextLines) : ~IsHeader(TextLines[i])) =>
               (mpFirst.components = <<>> /\ mpFirst.total_components = 0)
        /\ (\A i \in 1..Len(TextLines) : TextLines[i] # <<MermaidOpen>>) =>
               mpFirst.architecture_diagram = ""
        /\ \A c \in 1..Len(BlockHeaders) :
              LET i == BlockHeaders[c]
                  comp == mpFirst.components[c]
              IN  /\ NoKnownType(i) => comp.type = "service"
                  /\ KeyMissing(i, "**Path**") => comp.path = "/"
                  /\ KeyMissing(i, "**Technology**") =>
                         comp.technology = "unknown"
                  /\ KeyMissing(i, "**Complexity**") =>
                         comp.complexity = "medium"
                  /\ KeyMissing(i, "**Dependencies**") =>
                         comp.dependencies = <<>>
                  /\ KeyMissing(i, "**Description**") =>
                         comp.description = ""

\* a text of one block whose Type line names no ComponentType, with a Path
\* line and without a diagram, was parsed into one component of type
\* service with that path and the other defaults
C26_Witness ==
    /\ mpFirst # NoneV
    /\ mpContent.readable
    /\ TextLines = << <<ComponentLiteral, "A">>,
                      <<"- ", "**Type**", ":", " ", "Frontend">>,
                      <<"- ", "**Path**", ":", " ", "src/a", " ">> >>
    /\ mpFirst.kind = "manifest"
    /\ mpFirst.architecture_diagram = ""
    /\ mpFirst.components =
           << [ComponentDefaults("A") EXCEPT !.path = "src/a"] >>

AnalyzeDone == aaPc = "done"

RepoOK == aaIn.repoExists /\ aaIn.repoIsDir

\* C25: analyze fails before any agent invocation when repo_path does not
\* exist or is not a directory, fails after the stream when the manifest
\* was not written to output_path/architecture_manifest.md, and in every
\* other case returns a manifest and persists architecture_manifest.json.
C25_AnalyzeFailsOnlyWithoutManifest ==
    AnalyzeDone =>
        /\ ~RepoOK => (aaOut.kind = "raised" /\ ~aaInvoked)
        /\ (RepoOK /\ ~aaIn.writtenThere) =>
               (aaOut.kind = "raised" /\ aaInvoked
                   /\ turn_count = aaIn.length)
        /\ (RepoOK /\ aaIn.writtenThere) =>
               (aaOut.kind = "manifest" /\ aaSaved)

\* C25 as amended: ValueError before any invocation for a bad repo_path;
\* otherwise one invocation, whose exception propagates; after a stream
\* that ended, RuntimeError unless a Write of a path ending in
\* architecture_manifest.md was seen and the file exists at output_path;
\* otherwise the parsed manifest is returned and the JSON copy written,
\* unless reading the file raises.
C25_AnalyzeOutcomes ==
    AnalyzeDone =>
        /\ ~RepoOK =>
               (aaOut.kind = "raised" /\ aaOut.exc.cls = "ValueError"
                   /\ ~aaInvoked /\ ~aaSaved)
        /\ RepoOK => (aaInvoked /\ turn_count = aaIn.length)
        /\ (RepoOK /\ aaIn.raises) =>
               (aaOut.kind = "raised" /\ aaOut.exc = InvokerError
                   /\ ~aaSaved)
        /\ (RepoOK /\ ~aaIn.raises
               /\ (aaIn.writeAt = 0 \/ ~aaIn.fileExists)) =>
               (aaOut.kind = "raised" /\ aaOut.exc.cls = "RuntimeError"
                   /\ ~aaSaved)
        /\ (RepoOK /\ ~aaIn.raises /\ aaIn.writeAt > 0 /\ aaIn.fileExists) =>
               IF aaIn.content.readable
               THEN /\ aaOut.kind = "manifest"
                    /\ aaOut.total_components = Len(aaOut.components)
                    /\ aaSaved
               ELSE /\ aaOut.kind = "raised"
                    /\ aaOut.exc = FileNotReadable
                    /\ ~aaSaved

\* the manifest was written to output_path in the second of three messages
\* and analyze returned its one component, the JSON copy saved
C25_Witness ==
    /\ AnalyzeDone
    /\ aaIn.writtenThere
    /\ aaIn.writeAt = 2
    /\ aaIn.length = 3
    /\ aaOut.kind = "manifest"
    /\ Len(aaOut.components) = 1
    /\ aaSaved

\* C30: for every max_turns >= 1 and every stream length the turn-limit
\* warning is emitted exactly once if the turn count reaches 95% of
\* max_turns and never if it stays below.
C30_TurnLimitWarning ==
    (AnalyzeDone /\ aaInvoked) =>
        warnings = IF Percent * turn_count >= WarnPercent * aaIn.max_turns
                   THEN 1
                   ELSE 0

\* the warning is emitted once when turn_count reaches
\* int(max_turns * 0.95), if that is at least 1, and never otherwise
WarningAtTruncatedThreshold ==
    (AnalyzeDone /\ aaInvoked) =>
        warnings =
            IF /\ turn_warning_threshold(aaIn.max_turns) >= 1
               /\ turn_count >= turn_warning_threshold(aaIn.max_turns)
            THEN 1
            ELSE 0

\* the sum of the 'cost' fields of operation_costs, added in list order
RECURSIVE SumCosts(_)
SumCosts(costs) ==
    IF costs = <<>> THEN FloatZero
    ELSE FloatAdd(SumCosts(SubSeq(costs, 1, Len(costs) - 1)),
                  costs[Len(costs)].cost)

CostReturned == ccOut # NoneV

\* C27 (as stated): the total_cost returned by calculate_cost equals the sum
\* of the 'cost' fields of operation_costs, and is 0 with no recorded usage.
C27_CostFold ==
    CostReturned =>
        /\ ccOut.total_cost = SumCosts(ccOut.operation_costs)
        /\ token_usages = <<>> => ccOut.total_cost = FloatZero

\* x is within `roundings' relative roundings (each at most 2^-53) of the
\* exact value of the sum over the usages of
\* input_tokens / 1e6 * input_price + output_tokens / 1e6 * output_price.
\* Both sides are scaled by 1e6 and a power of two to natural numbers.
WithinRoundings(x, pricing, usages, roundings) ==
    LET pin == pricing.input_cost_per_million
        pout == pricing.output_cost_per_million
        xe == IF x = FloatZero THEN pin.e ELSE x.e
        low == IF pin.e < pout.e THEN pin.e ELSE pout.e
        e == IF xe < low THEN xe ELSE low
        exact ==
            BigAdd(ShiftLeft(BigMul(BigInt(SumTokens(usages, "input_tokens")),
                                    pin.m), pin.e - e),
                   ShiftLeft(BigMul(BigInt(SumTokens(usages, "output_tokens")),
                                    pout.m), pout.e - e))
        got == ShiftLeft(BigMulSmall(x.m, Million), xe - e)
    IN  ~BigLess(BigMulSmall(exact, roundings),
                 ShiftLeft(BigAbsDiff(got, exact), MantissaBits))

\* C27 (amended): with no usage total_cost is 0.0 and operation_costs is
\* empty; with one usage total_cost is that operation's cost; in general
\* total_cost and the sum of the operation costs equal the exact sum up to
\* floating-point rounding, 4 roundings for total_cost and 4 plus one per
\* usage for the sum of the operation costs.
C27_CostFoldUpToRounding ==
    CostReturned =>
        LET pricing == CLAUDE_PRICING(model)
            n == Len(token_usages)
        IN  /\ Len(ccOut.operation_costs) = n
            /\ n = 0 => ccOut.total_cost = FloatZero
            /\ n = 1 => ccOut.total_cost = ccOut.operation_costs[1].cost
            /\ WithinRoundings(ccOut.total_cost, pricing, token_usages, 4)
            /\ WithinRoundings(SumCosts(ccOut.operation_costs), pricing,
                               token_usages, n + 4)

\* a breakdown of two usages whose total_cost is not the sum of its costs
C27_Witness ==
    /\ CostReturned
    /\ Len(token_usages) = 2
    /\ ccOut.total_cost # SumCosts(ccOut.operation_costs)

\* the tasks that raised, and those among them placed before task i
RaisedTasks == {i \in DOMAIN tstate : tstate[i] = "raised"}

\* the place in component_results of the entry made for task i, which did
\* not end with a successful result: after every successful result and
\* after the failed entries of the tasks created before it
FailedPlace(i) ==
    Cardinality({j \in DOMAIN tstate :
                    tstate[j] = "returned" /\ agentRet[j].success})
        + Cardinality({j \in 1..i :
                          \/ tstate[j] = "raised"
                          \/ tstate[j] = "returned" /\ ~agentRet[j].success})

\* C28: when orchestrate_component_analysis has returned, the entry made
\* for each task that raised e carries the name of the component the task
\* was created for, success = false and errors = [str(e)], and no other
\* entry carries the message of e unless its own task raised it.
C28_FailureAttribution ==
    (entry \in {"orchestrate", "build"} /\ orchResult # NoneV) =>
        LET rs == orchResult.component_results
        IN  /\ \A i \in RaisedTasks :
                  /\ FailedPlace(i) \in 1..Len(rs)
                  /\ rs[FailedPlace(i)].component_name = manifest[i]
                  /\ ~rs[FailedPlace(i)].success
                  /\ rs[FailedPlace(i)].errors = <<Str(taskExc[i])>>
            /\ \A n \in Names :
                  Cardinality({p \in 1..Len(rs) :
                                  /\ rs[p].component_name = n
                                  /\ rs[p].errors = <<Str(MkdirError(n))>>})
                      = Cardinality({i \in RaisedTasks : manifest[i] = n})

\* the orchestration returned after the task of a component that is not the
\* first one raised, while the task of a component with another name did not
C28_Witness ==
    /\ pc = "o_returned"
    /\ \E i \in RaisedTasks : \E j \in DOMAIN tstate :
           /\ i > 1
           /\ tstate[j] = "returned"
           /\ manifest[j] # manifest[i]

\* a task that has left a status never comes back to it: its agent is
\* invoked at most once and its outcome is final
TaskMovesForward ==
    \A i \in DOMAIN tstate :
        /\ tstate[i] # "pending" => tstate'[i] # "pending"
        /\ tstate[i] \in Finished => tstate'[i] = tstate[i]

\* orchestrate_component_analysis has returned and the agent of every
\* component has been invoked and has ended
OrchestrationOver ==
    /\ pc = "o_returned"
    /\ orchResult # NoneV
    /\ DOMAIN tstate = 1..Len(manifest)
    /\ \A i \in DOMAIN tstate : tstate[i] \in Finished

Queued == {job_queue[i] : i \in DOMAIN job_queue}

\* C31: cancel_job returns true and sets CANCELLED only when the job exists
\* and is PENDING, and leaves every job as it was otherwise; a job becomes
\* CANCELLED in no other way; and a CANCELLED job is never changed again
\* and never handed to the builder, although its id is still queued,
\* whatever the interleaving of cancel_job with the worker.
C31_CancelledNeverExecuted ==
    [][/\ cancelRet' # cancelRet =>
             LET id == cancelRet'.job_id
             IN  IF cancelRet'.ok
                 THEN /\ id \in DOMAIN jobs
                      /\ jobs[id].status = "pending"
                      /\ jobs'[id].status = "cancelled"
                      /\ \A other \in DOMAIN jobs \ {id} :
                             jobs'[other] = jobs[other]
                      /\ Len(jobs') = Len(jobs)
                 ELSE /\ id \notin DOMAIN jobs \/ jobs[id].status # "pending"
                      /\ jobs' = jobs
       /\ \A id \in DOMAIN jobs :
             /\ (jobs[id].status # "cancelled"
                    /\ jobs'[id].status = "cancelled") =>
                    cancelRet' = [job_id |-> id, ok |-> TRUE]
             /\ jobs[id].status = "cancelled" =>
                    /\ jobs'[id] = jobs[id]
                    /\ worker' # id]_vars

\* job 1 was cancelled while its id was queued, the worker has since taken
\* that id and gone on to run job 2, and a second cancel_job of job 1 was
\* refused
C31_Witness ==
    /\ Len(jobs) >= 2
    /\ jobs[1].status = "cancelled"
    /\ jobs[1].result = NoneV
    /\ 1 \notin Queued
    /\ worker = 2
    /\ jobs[2].status = "running"
    /\ cancelRet = [job_id |-> 1, ok |-> FALSE]

\* the place the outcome of task i must have in component_results: among
\* the successful ones in manifest order, or after all of them among the
\* failed ones in manifest order
ResultPlace(i) ==
    IF i \in SucceededTasks
    THEN Cardinality({j \in SucceededTasks : j <= i})
    ELSE Cardinality(SucceededTasks)
             + Cardinality({j \in DOMAIN tstate \ SucceededTasks : j <= i})

\* C32: the OrchestrationResult is a function of the per-component
\* outcomes alone, so it is the same under every completion order of the
\* tasks: the counts are the numbers of successful and of other outcomes,
\* and component_results holds the successful results in manifest order
\* followed by the failed ones in manifest order.
C32_AggregationDeterministic ==
    (entry \in {"orchestrate", "build"} /\ orchResult # NoneV) =>
        LET rs == orchResult.component_results
        IN  /\ Len(rs) = Len(manifest)
            /\ orchResult.successful_components = Cardinality(SucceededTasks)
            /\ orchResult.failed_components =
                   Len(manifest) - Cardinality(SucceededTasks)
            /\ \A i \in DOMAIN tstate :
                   /\ ResultPlace(i) \in 1..Len(rs)
                   /\ rs[ResultPlace(i)] =
                          IF tstate[i] = "raised"
                          THEN SyntheticFailure(manifest[i], taskExc[i])
                          ELSE agentRet[i]

\* three components ran two at a time; the first task raised, the second
\* returned a failed result and the third a successful one, which is listed
\* first
C32_Witness ==
    /\ pc = "o_returned"
    /\ Len(manifest) = 3
    /\ k >= 2
    /\ tstate[1] = "raised"
    /\ tstate[2] = "returned" /\ ~agentRet[2].success
    /\ tstate[3] = "returned" /\ agentRet[3].success
    /\ orchResult.component_results[1] = agentRet[3]
    /\ orchResult.component_results[3] = agentRet[2]

\* C33: in every ValidationOrchestrationResult the three tallies add up to
\* total_components, which is the number of validation_results, whatever
\* the validation reports hold.
C33_TalliesPartition ==
    valResult # NoneV =>
        /\ valResult.total_components = Len(valResult.validation_results)
        /\ valResult.components_passed + valResult.components_partial
               + valResult.components_failed = valResult.total_components

\* the tallies do add up when every result carries one of the three
\* statuses, and total_components is the number of results in every case
TalliesPartitionKnownStatuses ==
    valResult # NoneV =>
        /\ valResult.total_components = Len(valResult.validation_results)
        /\ (\A i \in DOMAIN valResult.validation_results :
                valResult.validation_results[i].overall_status
                    \in {"PASS", "PARTIAL", "FAIL"}) =>
               valResult.components_passed + valResult.components_partial
                   + valResult.components_failed = valResult.total_components

\* C34: with auto_restart_on_early_termination false and
\* max_restart_attempts >= 1, an invocation that returned (with no file,
\* with files but fewer than 2 core files, or with enough core files) is
\* the only one, and the controller returns the files of that attempt.
C34_NoRestartWithoutFlag ==
    (/\ rcCfg # NoneV
     /\ ~rcCfg.auto_restart_on_early_termination
     /\ rcCfg.max_restart_attempts >= 1
     /\ rcHist # <<>>
     /\ rcHist[1] # "raise") =>
        /\ Len(rcHist) = 1
        /\ rcPc \in {"done", "built"}
        /\ rcOut.kind = "returned"
        /\ rcOut.files = all_files_written

\* the paths of a list
Paths(files) == {files[i] : i \in 1..Len(files)}

\* C35: the list the controller returns holds no path twice and holds
\* every path that a Write event of any attempt named, the attempts that
\* raised and were retried included.
C35_AccumulatedFiles ==
    (rcOut # NoneV /\ rcOut.kind = "returned") =>
        /\ Cardinality(Paths(rcOut.files)) = Len(rcOut.files)
        /\ write_events \subseteq Paths(rcOut.files)

\* the returned list holds no path twice and only paths that were written
AccumulatedFilesDistinct ==
    (rcOut # NoneV /\ rcOut.kind = "returned") =>
        /\ Cardinality(Paths(rcOut.files)) = Len(rcOut.files)
        /\ Paths(rcOut.files) \subseteq write_events

\* C36: a COMPLETED job carries a result with success == true; a command
\* whose builder returned success == false leaves the job FAILED with an
\* error_message.
C36_CompletedMeansSuccess ==
    \A id \in DOMAIN jobs :
        /\ jobs[id].status = "completed" =>
               /\ jobs[id].result # NoneV
               /\ jobs[id].result.success
        /\ (jobs[id].result # NoneV /\ ~jobs[id].result.success) =>
               /\ jobs[id].status = "failed"
               /\ jobs[id].error_message # NullV

\* what does hold: COMPLETED jobs carry a result, FAILED jobs an
\* error_message and no result
CompletedHasResult ==
    \A id \in DOMAIN jobs :
        /\ jobs[id].status = "completed" <=> jobs[id].result # NoneV
        /\ jobs[id].status = "failed" <=> jobs[id].error_message # NullV

RunningJobs == {id \in DOMAIN jobs : jobs[id].status = "running"}

\* a job starts only when no job enqueued before it is still PENDING
JobsStartInQueueOrder ==
    \A id \in DOMAIN jobs :
        (jobs[id].status = "pending" /\ jobs'[id].status = "running") =>
            \A earlier \in 1..(id - 1) : jobs[earlier].status # "pending"

\* C37: in every reachable state at most one job is RUNNING, and jobs
\* become RUNNING in the order in which create_job enqueued them.
C37_SerialFifo ==
    /\ [](Cardinality(RunningJobs) <= 1)
    /\ [][JobsStartInQueueOrder]_vars

\* the order in which jobs start is the order of the queue
JobsStartFifo == [][JobsStartInQueueOrder]_vars

Terminal == {"completed", "failed", "cancelled"}

\* job id has been accepted and has not reached a terminal status
Unfinished(id) ==
    IF id \in DOMAIN jobs THEN jobs[id].status \notin Terminal ELSE FALSE

\* a job becomes FAILED only as the job the worker is processing, no other
\* job changes with it, and the worker goes back to the queue
FailureIsLocal ==
    \A id \in DOMAIN jobs :
        (jobs[id].status # "failed" /\ jobs'[id].status = "failed") =>
            /\ worker = id
            /\ worker' = 0
            /\ jobs'[id].error_message = Str(CommandError)
            /\ \A other \in DOMAIN jobs \ {id} : jobs'[other] = jobs[other]
            /\ job_queue' = job_queue

\* C38: with the worker started and never stopped, and every command
\* returning or raising, every accepted job reaches COMPLETED, FAILED or
\* CANCELLED; a command that raises marks only its own job FAILED and the
\* worker goes on with the later jobs.
C38_JobLiveness ==
    /\ \A id \in JobIds : Unfinished(id) ~> ~Unfinished(id)
    /\ [][FailureIsLocal]_vars

\* the first job failed, and the worker then completed the second and
\* skipped the cancelled third
C38_Witness ==
    /\ Len(jobs) = 3
    /\ jobs[1].status = "failed"
    /\ jobs[2].status = "completed"
    /\ jobs[3].status = "cancelled"
    /\ job_queue = <<>>
    /\ worker = 0

\* C39: once stop_worker has returned no job is RUNNING: the job that was
\* being processed is FAILED or CANCELLED and has completed_at set.
C39_StopLeavesNoRunningJob ==
    worker = -1 =>
        \A id \in DOMAIN jobs :
            /\ jobs[id].status # "running"
            /\ jobs[id].status \in Terminal => jobs[id].completed_at # NullV

\* every job in a terminal status has completed_at set
TerminalHasCompletedAt ==
    \A id \in DOMAIN jobs :
        jobs[id].status \in Terminal <=> jobs[id].completed_at # NullV

\* the names of the files listed by a BuildResult that lie directly in the
\* output directory
TopLevelFiles(files) == {f \in files : Len(f) = 1}

\* C40: a BuildResult with success = false has files_written == [] and
\* metadata == {}, whatever had been written before the failure; one with
\* success = true lists both manifest files, and lists
\* component_analysis_summary.json iff metadata.phase_2_complete and
\* validation_summary.json iff metadata.phase_3_complete.
C40_ResultShape ==
    (buildOut # NoneV /\ buildOut.kind = "result" /\ entry = "build") =>
        IF buildOut.success
        THEN /\ <<"architecture_manifest.md">> \in buildOut.files_written
             /\ <<"architecture_manifest.json">> \in buildOut.files_written
             /\ (<<"component_analysis_summary.json">>
                    \in buildOut.files_written)
                    <=> buildOut.metadata.phase_2_complete
             /\ (<<"validation_summary.json">> \in buildOut.files_written)
                    <=> buildOut.metadata.phase_3_complete
        ELSE /\ buildOut.files_written = {}
             /\ buildOut.metadata = <<>>

\* a build failed after Phase 2 had analysed three components, one of them
\* successfully with files written, and after the validators had run
C40_Witness ==
    /\ entry = "build"
    /\ pc = "b_done"
    /\ buildOut.kind = "result"
    /\ ~buildOut.success
    /\ Len(manifest) = 3
    /\ orchResult # NoneV
    /\ \E i \in 1..3 : orchResult.component_results[i].files_written # {}
    /\ \A j \in DOMAIN vstate : vstate[j] \in Finished

\* a build succeeded with Phase 2 complete and Phase 3 skipped
SuccessWithoutValidation ==
    /\ entry = "build"
    /\ pc = "b_done"
    /\ buildOut.kind = "result"
    /\ buildOut.success
    /\ buildOut.metadata.phase_2_complete
    /\ ~buildOut.metadata.phase_3_complete
    /\ TopLevelFiles(buildOut.files_written) =
           {<<"architecture_manifest.md">>, <<"architecture_manifest.json">>,
            <<"component_analysis_summary.json">>}

====
